---- MODULE Spec2Model ----
(***************************************************************************)
(* A model of the resume-ingestion pipeline of ocr_tool: the batch entry   *)
(* point (import_cvs.main / process_file), the request handler             *)
(* (app.upload_resume), the model-extraction wrapper (llm_utils), the      *)
(* persistence helpers, and the pure helpers they call.                    *)
(*                                                                         *)
(* Python strings are TLA+ strings; the character at position i of s is    *)
(* SubSeq(s, i, i).  Each component has its own specification: its own     *)
(* variables move and every other component's variables stay idle.         *)
(***************************************************************************)
EXTENDS Naturals, Integers, Sequences, FiniteSets, TLC

VARIABLES
    \* clean_mobile_number applied to an input string
    mobile_pc,      \* "input" while the argument is being chosen, "done" after the call
    raw_number,     \* the argument raw_number
    mobile_typed,   \* how many characters the caller appended to the seed
    mobile_out,     \* the value returned
    \* detect_gender (import_cvs and llm_utils) applied to its arguments
    gender_pc,      \* "input", then "batch" (import_cvs scorer ran) or "llm" (llm_utils scorer ran)
    g_text,         \* the argument text
    g_name,         \* the argument extracted_name / name
    g_llm,          \* the argument llm_gender (import_cvs only)
    g_email,        \* the argument email
    male_score,     \* the scorer's local male_score at its final decision
    female_score,   \* the scorer's local female_score at its final decision
    gender_out,     \* the value returned
    \* is_scanned_pdf_bytes applied to a document
    scan_pc,        \* "input", then "done" after the call
    open_fails,     \* whether fitz.open raises on this document
    pages,          \* what page.get_text("text") gives for each page, in order
    min_chars,      \* the argument min_chars
    scan_read,      \* how many pages had get_text called on them
    scan_raised,    \* whether an exception left the function
    scan_out,       \* the value returned
    \* find_location_id applied to a query against the locations table
    loc_pc,         \* "input", then "done" after the call
    locations,      \* the rows of the locations table
    q_area,         \* the argument area
    q_city,         \* the argument city
    q_state,        \* the argument state
    q_free,         \* the argument free_text_location
    loc_consulted,  \* the steps whose query was executed, in order
    loc_out,        \* the value returned
    \* process_file applied to a file
    pf_pc,          \* "input", then "done" after the call
    pf_path,        \* the argument file_path
    pf_doc,         \* the file behind it: whether it opens, the text extracted
    pf_resp,        \* what the model collaborator does with the prompt
    pf_store,       \* the rows of the locations table
    pf_db,          \* whether the database answers
    pf_cols,        \* the argument existing_cols
    pf_out,         \* the outcome: the dictionary returned or the exception raised
    \* main, the batch run
    main_pc,        \* "start", "loop", then "done", "aborted" (return at line 312) or
                    \* "crashed" (an exception left main)
    input_folder,   \* the names in INPUT_FOLDER
    error_folder,   \* the names in ERROR_FOLDER
    files,          \* the local files
    existing_cols,  \* the local existing_cols
    idx,            \* the position of the loop in files
    total_processed,
    total_errors,
    log,            \* the lines of processed_files.log
    log_start,      \* how many lines the log held when the run began
    table,          \* the rows of candidate_details
    attempts,       \* per iteration so far: the file, whether the try block raised,
                    \* where, whether the handler let an exception out, and whether
                    \* the INSERT of the file's record was committed
    fs_faulty,      \* whether os.rename and the log appends of this run can fail
    \* upload_resume applied to a request
    req_pc,         \* "input", then "done" after the request
    req_ctype,      \* file.content_type
    req_text,       \* the text the extractor returns for the upload
    req_name,       \* what extract_name finds in it
    req_info,       \* what extract_information_from_text does
    req_fin,        \* what extract_finscore_from_text returns
    req_upload,     \* the form field upload_to_db
    req_cols,       \* the columns of candidate_details
    req_db,         \* whether the database answers
    req_table,      \* the rows of candidate_details
    req_out,        \* the response, or the exception that left the handler
    \* insert_into_db / upsert_candidate_details called on a record
    ps_pc,          \* "input", then "insert" or "upsert" after the call
    ps_record,      \* the argument row_data / details
    ps_cols,        \* the columns of candidate_details
    ps_db,          \* whether the database answers
    ps_table,       \* the rows of candidate_details
    ps_before,      \* the rows it held before the call
    ps_out,         \* how the call ended: returned, or raised with a message
    \* extract_text_from_file applied to a file of the input folder
    ex_pc,          \* "input", then "done" after the call
    ex_path,        \* the argument path
    ex_opens,       \* whether open(path, "rb") succeeds
    ex_fitz_fails,  \* whether fitz.open raises on the bytes
    ex_pages,       \* what page.get_text("text") gives for each page, in order
    ex_ocr,         \* what image_to_string gives for each page, in order
    ex_docx,        \* the paragraph texts of the DOCX, or Document raising
    ex_out,         \* how the call ended: [kind, text, exc]
    ex_ocr_calls,   \* how many times ocr_pdf_bytes was called
    \* normalize_text applied to a text, and again to its result
    nz_pc,          \* "input", "once" after the first call, "twice" after the second
    nz_text,        \* the argument text
    nz_once,        \* normalize_text(text)
    nz_twice,       \* normalize_text(normalize_text(text))
    \* calculate_age (import_cvs) and the age fallback of llm_utils applied to a record
    age_pc,         \* "input", then "batch" (calculate_age ran) or "llm" (the llm_utils fallback ran)
    age_dob,        \* the value of cv_dateofbirth, or the mark of a record without the key
    age_grad,       \* the value of cv_graduationyear, or the mark of a record without the key
    age_out,        \* the age the call gave
    \* one file through one iteration of main, collaborator call by collaborator call
    u_pc,           \* "start", "read" (text extracted), "processed" (process_file ended), "done"
    u_fitz_fails,   \* whether fitz.open raises on the file
    u_pages,        \* what page.get_text gives for each page
    u_ocr,          \* what image_to_string gives for each page
    u_resp,         \* what the model collaborator does with the prompt
    u_db,           \* whether the database answers the location queries
    u_db_ins,       \* whether the database answers the INSERT
    u_text,         \* the text extract_text_from_file returned
    u_outcome,      \* how process_file ended
    u_calls,        \* the collaborator calls made for the file so far, in order
    u_table,        \* the rows of candidate_details
    u_processed,    \* 1 when the file was logged PROCESSED
    u_errors,       \* 1 when the file was logged ERROR
    \* extract_emails as a pure function of the text
    em_pc,          \* "start", "done"
    em_text,        \* the text handed to extract_emails
    em_out          \* the list extract_emails returned

MobileVars == <<mobile_pc, raw_number, mobile_typed, mobile_out>>

GenderVars == <<gender_pc, g_text, g_name, g_llm, g_email, male_score, female_score, gender_out>>

ScanVars == <<scan_pc, open_fails, pages, min_chars, scan_read, scan_raised, scan_out>>

LocVars == <<loc_pc, locations, q_area, q_city, q_state, q_free, loc_consulted, loc_out>>

ProcVars == <<pf_pc, pf_path, pf_doc, pf_resp, pf_store, pf_db, pf_cols, pf_out>>

BatchVars ==
    <<main_pc, input_folder, error_folder, files, existing_cols, idx, total_processed,
      total_errors, log, log_start, table, attempts, fs_faulty>>

ReqVars ==
    <<req_pc, req_ctype, req_text, req_name, req_info, req_fin, req_upload, req_cols, req_db,
      req_table, req_out>>

PersistVars == <<ps_pc, ps_record, ps_cols, ps_db, ps_table, ps_before, ps_out>>

ExtractVars == <<ex_pc, ex_path, ex_opens, ex_fitz_fails, ex_pages, ex_ocr, ex_docx, ex_out, ex_ocr_calls>>

NormalizeVars == <<nz_pc, nz_text, nz_once, nz_twice>>

AgeVars == <<age_pc, age_dob, age_grad, age_out>>

UnitVars == <<u_pc, u_fitz_fails, u_pages, u_ocr, u_resp, u_db, u_db_ins, u_text, u_outcome, u_calls, u_table, u_processed, u_errors>>

EmailsVars == <<em_pc, em_text, em_out>>

vars ==
    <<MobileVars, GenderVars, ScanVars, LocVars, ProcVars, BatchVars, ReqVars, PersistVars,
      ExtractVars, NormalizeVars, AgeVars, UnitVars, EmailsVars>>

\* what an action of one component leaves alone
NotMobile ==
    <<GenderVars, ScanVars, LocVars, ProcVars, BatchVars, ReqVars, PersistVars, ExtractVars,
      NormalizeVars, AgeVars, UnitVars, EmailsVars>>

NotGender ==
    <<MobileVars, ScanVars, LocVars, ProcVars, BatchVars, ReqVars, PersistVars, ExtractVars,
      NormalizeVars, AgeVars, UnitVars, EmailsVars>>

NotScan ==
    <<MobileVars, GenderVars, LocVars, ProcVars, BatchVars, ReqVars, PersistVars, ExtractVars,
      NormalizeVars, AgeVars, UnitVars, EmailsVars>>

NotLoc ==
    <<MobileVars, GenderVars, ScanVars, ProcVars, BatchVars, ReqVars, PersistVars, ExtractVars,
      NormalizeVars, AgeVars, UnitVars, EmailsVars>>

NotProc ==
    <<MobileVars, GenderVars, ScanVars, LocVars, BatchVars, ReqVars, PersistVars, ExtractVars,
      NormalizeVars, AgeVars, UnitVars, EmailsVars>>

NotBatch ==
    <<MobileVars, GenderVars, ScanVars, LocVars, ProcVars, ReqVars, PersistVars, ExtractVars,
      NormalizeVars, AgeVars, UnitVars, EmailsVars>>

NotReq ==
    <<MobileVars, GenderVars, ScanVars, LocVars, ProcVars, BatchVars, PersistVars, ExtractVars,
      NormalizeVars, AgeVars, UnitVars, EmailsVars>>

NotPersist ==
    <<MobileVars, GenderVars, ScanVars, LocVars, ProcVars, BatchVars, ReqVars, ExtractVars,
      NormalizeVars, AgeVars, UnitVars, EmailsVars>>

NotExtract ==
    <<MobileVars, GenderVars, ScanVars, LocVars, ProcVars, BatchVars, ReqVars,
      PersistVars, NormalizeVars, AgeVars, UnitVars, EmailsVars>>

NotNormalize ==
    <<MobileVars, GenderVars, ScanVars, LocVars, ProcVars, BatchVars, ReqVars,
      PersistVars, ExtractVars, AgeVars, UnitVars, EmailsVars>>

NotAge ==
    <<MobileVars, GenderVars, ScanVars, LocVars, ProcVars, BatchVars, ReqVars,
      PersistVars, ExtractVars, NormalizeVars, UnitVars, EmailsVars>>

NotUnit ==
    <<MobileVars, GenderVars, ScanVars, LocVars, ProcVars, BatchVars, ReqVars,
      PersistVars, ExtractVars, NormalizeVars, AgeVars, EmailsVars>>

NotEmails ==
    <<MobileVars, GenderVars, ScanVars, LocVars, ProcVars, BatchVars, ReqVars,
      PersistVars, ExtractVars, NormalizeVars, AgeVars, UnitVars>>

(***************************************************************************)
(* Shared constants and string helpers                                     *)
(***************************************************************************)

\* import_cvs.DEFAULT_NA / llm_utils.DEFAULT_NA
DEFAULT_NA == "#N/A"

Min(a, b) == IF a <= b THEN a ELSE b

Max(a, b) == IF a >= b THEN a ELSE b

\* s[i] of a Python string (1-based here)
CharAt(s, i) == SubSeq(s, i, i)

\* s[-n:] of a Python string, n > 0
LastN(s, n) == SubSeq(s, Max(1, Len(s) - n + 1), Len(s))

\* s[:n] of a Python string
FirstN(s, n) == SubSeq(s, 1, Min(n, Len(s)))

\* the characters the regex class \d accepts (of the characters the model uses)
IsDigit(c) == c \in {"0", "1", "2", "3", "4", "5", "6", "7", "8", "9"}

\* re.sub(r"\D", "", s): every non-digit character removed, order kept
RECURSIVE DigitsOnly(_)
DigitsOnly(s) ==
    IF s = "" THEN ""
    ELSE (IF IsDigit(CharAt(s, 1)) THEN CharAt(s, 1) ELSE "")
            \o DigitsOnly(SubSeq(s, 2, Len(s)))

\* JSON null (Python None) as a dictionary value or argument: a reserved spelling
\* that no Python string of the model uses
NoneV == "<None>"

UpperLetters == "ABCDEFGHIJKLMNOPQRSTUVWXYZ"

LowerLetters == "abcdefghijklmnopqrstuvwxyz"

UpperSet == {CharAt(UpperLetters, i) : i \in 1..26}

LowerSet == {CharAt(LowerLetters, i) : i \in 1..26}

\* upper-case letter -> lower-case letter
LowerTable ==
    [c \in UpperSet |->
        CharAt(LowerLetters, CHOOSE i \in 1..26 : CharAt(UpperLetters, i) = c)]

LowerChar(c) == IF c \in UpperSet THEN LowerTable[c] ELSE c

\* the k-th smallest number of a finite set of numbers
NthOf(S, k) == CHOOSE p \in S : Cardinality({q \in S : q < p}) = k - 1

\* "".join(q[lo..hi]) for a sequence of strings q
RECURSIVE Concat(_, _, _)
Concat(q, lo, hi) ==
    IF lo > hi THEN ""
    ELSE IF lo = hi THEN q[lo]
    ELSE Concat(q, lo, (lo + hi) \div 2) \o Concat(q, (lo + hi) \div 2 + 1, hi)

\* str.lower()
Lower(s) == Concat([i \in 1..Len(s) |-> LowerChar(CharAt(s, i))], 1, Len(s))

\* the characters str.split(), str.strip() and the regex class \s treat as blank
IsSpace(c) == c \in {" ", "\n", "\t", "\r"}

\* the regex class \w
IsWordChar(c) == c \in UpperSet \/ c \in LowerSet \/ IsDigit(c) \/ c = "_"

\* sub in s (Python's substring test)
Contains(s, sub) ==
    \E i \in 1..(Len(s) - Len(sub) + 1) : SubSeq(s, i, i + Len(sub) - 1) = sub

\* the maximal runs of characters satisfying a class, in order.  Runs(s, TRUE) is
\* s.split(); Runs(s, FALSE) is the list of the maximal \w runs, the only places
\* a regex \bword\b can match.
Runs(s, bySpace) ==
    LET n == Len(s)
        inRun(i) == IF bySpace THEN ~IsSpace(CharAt(s, i)) ELSE IsWordChar(CharAt(s, i))
        starts == {i \in 1..n : inRun(i) /\ (i = 1 \/ ~inRun(i - 1))}
        ends   == {i \in 1..n : inRun(i) /\ (i = n \/ ~inRun(i + 1))}
    IN  [k \in 1..Cardinality(starts) |-> SubSeq(s, NthOf(starts, k), NthOf(ends, k))]

\* str.split() with no argument
SplitWords(s) == Runs(s, TRUE)

\* re.search(r"\b(w1|w2|...)\b", s): some maximal \w run of s is one of the words
HasWord(s, words) ==
    LET r == Runs(s, FALSE) IN \E i \in 1..Len(r) : r[i] \in words

\* s.split(sep)[0] for a one-character sep
RECURSIVE SplitFirst(_, _)
SplitFirst(s, sep) ==
    IF s = "" \/ CharAt(s, 1) = sep THEN ""
    ELSE CharAt(s, 1) \o SplitFirst(SubSeq(s, 2, Len(s)), sep)

\* str.lstrip() / str.rstrip() / str.strip()
RECURSIVE LStrip(_)
LStrip(s) == IF s # "" /\ IsSpace(CharAt(s, 1)) THEN LStrip(SubSeq(s, 2, Len(s))) ELSE s

RECURSIVE RStrip(_)
RStrip(s) ==
    IF s # "" /\ IsSpace(CharAt(s, Len(s))) THEN RStrip(SubSeq(s, 1, Len(s) - 1)) ELSE s

Strip(s) == RStrip(LStrip(s))

\* s.split(sep) for a one-character sep
SplitAll(s, sep) ==
    LET n == Len(s)
        at == {i \in 1..n : CharAt(s, i) = sep}
        m == Cardinality(at)
        cut(k) == IF k = 0 THEN 0 ELSE IF k = m + 1 THEN n + 1 ELSE NthOf(at, k)
    IN  [k \in 1..(m + 1) |-> SubSeq(s, cut(k - 1) + 1, cut(k) - 1)]

\* sep.join(items)
RECURSIVE Join(_, _)
Join(items, sep) ==
    IF items = <<>> THEN ""
    ELSE IF Len(items) = 1 THEN items[1]
    ELSE items[1] \o sep \o Join(Tail(items), sep)

\* A JSON array of strings and nulls (a Python list) as a dictionary value: the
\* reserved spelling "<[" item "|" item ... "]>", which no Python string of the
\* model uses; "<[]>" is the empty list.
ListV(items) == "<[" \o Join(items, "|") \o "]>"

\* isinstance(v, list)
IsList(v) == Len(v) >= 4 /\ FirstN(v, 2) = "<[" /\ LastN(v, 2) = "]>"

\* the items of a list value
ListItems(v) ==
    IF v = "<[]>" THEN <<>> ELSE SplitAll(SubSeq(v, 3, Len(v) - 2), "|")

\* Python truthiness of a string, a list or None
Truthy(v) == v \notin {NoneV, "", "<[]>"}

\* the items of a sequence that differ from every value in drop, in order
RECURSIVE Without(_, _)
Without(q, drop) ==
    IF q = <<>> THEN <<>>
    ELSE (IF Head(q) \in drop THEN <<>> ELSE <<Head(q)>>) \o Without(Tail(q), drop)

\* str(v) of a string or None
PyStr(v) == IF v = NoneV THEN "None" ELSE v

\* A Python dict with string keys is a function from a finite set of strings.
EmptyDict == <<>>

\* d.get(k, default)
Get(d, k, default) == IF k \in DOMAIN d THEN d[k] ELSE default

\* d.get(k)
GetOrNone(d, k) == Get(d, k, NoneV)

\* d[k] = v
Put(d, k, v) == [x \in (DOMAIN d) \cup {k} |-> IF x = k THEN v ELSE d[x]]

\* d.update(e): e's entries over d's
Update(d, e) == [x \in (DOMAIN d) \cup (DOMAIN e) |-> IF x \in DOMAIN e THEN e[x] ELSE d[x]]

\* the value of a decimal digit character
DigitVal(c) == (CHOOSE i \in 1..10 : CharAt("0123456789", i) = c) - 1

\* the number a non-empty string of digits spells
RECURSIVE NatOf(_)
NatOf(s) ==
    IF Len(s) = 1 THEN DigitVal(s)
    ELSE 10 * NatOf(SubSeq(s, 1, Len(s) - 1)) + DigitVal(CharAt(s, Len(s)))

IsNatText(s) == s # "" /\ \A i \in 1..Len(s) : IsDigit(CharAt(s, i))

\* int(s) of a Python string: blanks around, an optional sign, digits;
\* [ok, val], ok FALSE where int raises ValueError
PyInt(s) ==
    LET t    == Strip(s)
        sign == IF t # "" /\ CharAt(t, 1) \in {"+", "-"} THEN CharAt(t, 1) ELSE ""
        body == IF sign = "" THEN t ELSE SubSeq(t, 2, Len(t))
    IN  IF IsNatText(body)
        THEN [ok |-> TRUE, val |-> IF sign = "-" THEN 0 - NatOf(body) ELSE NatOf(body)]
        ELSE [ok |-> FALSE, val |-> 0]

IsLeap(y) == (y % 4 = 0 /\ y % 100 # 0) \/ y % 400 = 0

DaysIn(y, m) ==
    IF m = 2 THEN (IF IsLeap(y) THEN 29 ELSE 28)
    ELSE IF m \in {4, 6, 9, 11} THEN 30 ELSE 31

\* datetime.strptime(s, "%Y-%m-%d"): a 4-digit year, a 1- or 2-digit month and
\* day, a date of the calendar; [ok, year], ok FALSE where strptime raises
StrpYMD(s) ==
    LET parts == SplitAll(s, "-")
        wellFormed ==
            /\ Len(parts) = 3
            /\ \A i \in 1..3 : IsNatText(parts[i])
            /\ Len(parts[1]) = 4
            /\ Len(parts[2]) \in {1, 2}
            /\ Len(parts[3]) \in {1, 2}
        y == NatOf(parts[1])
        m == NatOf(parts[2])
        d == NatOf(parts[3])
    IN  IF wellFormed /\ y >= 1 /\ m \in 1..12 /\ d >= 1 /\ d <= DaysIn(y, m)
        THEN [ok |-> TRUE, year |-> y]
        ELSE [ok |-> FALSE, year |-> 0]

\* float(s) of a Python string with at most one decimal place, in tenths:
\* [ok, tenths], ok FALSE where float raises (None included)
PyFloatTenths(s) ==
    LET t     == IF s = NoneV THEN "" ELSE Strip(s)
        parts == SplitAll(t, ".")
    IN  IF Len(parts) = 1 /\ IsNatText(parts[1])
        THEN [ok |-> TRUE, tenths |-> 10 * NatOf(parts[1])]
        ELSE IF Len(parts) = 2 /\ IsNatText(parts[1]) /\ IsNatText(parts[2]) /\ Len(parts[2]) = 1
        THEN [ok |-> TRUE, tenths |-> 10 * NatOf(parts[1]) + NatOf(parts[2])]
        ELSE [ok |-> FALSE, tenths |-> 0]

\* str(x) of a float given in tenths: "8.5", "10.0"
TenthsStr(t) == ToString(t \div 10) \o "." \o ToString(t % 10)

(***************************************************************************)
(* import_cvs.clean_mobile_number                                          *)
(***************************************************************************)

\* a slip: digits[:10] instead of digits[-10:]
clean_mobile_number_first10(raw) ==
    IF raw = DEFAULT_NA THEN DEFAULT_NA
    ELSE LET digits == DigitsOnly(raw)
             kept   == IF Len(digits) > 10 THEN FirstN(digits, 10) ELSE digits
         IN  IF Len(kept) = 10 THEN kept ELSE DEFAULT_NA

clean_mobile_number(raw) ==
    IF raw = DEFAULT_NA THEN DEFAULT_NA
    ELSE LET digits == DigitsOnly(raw)
             kept   == IF Len(digits) > 10 THEN LastN(digits, 10) ELSE digits
         IN  IF Len(kept) = 10 THEN kept ELSE DEFAULT_NA

\* how many characters the harness appends to a seed string
MaxTyped == 5

\* the strings an argument starts from, and the characters appended to it
MobileSeeds == {"", DEFAULT_NA, "+91-98765", "+91 98765 43"}

MobileAlphabet == {"0", "7", " "}

MobileInit ==
    /\ mobile_pc = "input"
    /\ raw_number \in MobileSeeds
    /\ mobile_typed = 0
    /\ mobile_out = ""

MobileIdle ==
    /\ mobile_pc = "idle"
    /\ raw_number = ""
    /\ mobile_typed = 0
    /\ mobile_out = ""

\* the caller builds the argument one character at a time
MobileType ==
    /\ mobile_pc = "input"
    /\ mobile_typed < MaxTyped
    /\ mobile_typed' = mobile_typed + 1
    /\ \E c \in MobileAlphabet : raw_number' = raw_number \o c
    /\ UNCHANGED <<mobile_pc, mobile_out>>
    /\ UNCHANGED NotMobile

\* the call clean_mobile_number(raw_number)
MobileCall ==
    /\ mobile_pc = "input"
    /\ mobile_out' = clean_mobile_number(raw_number)
    /\ mobile_pc' = "done"
    /\ UNCHANGED <<raw_number, mobile_typed>>
    /\ UNCHANGED NotMobile

MobileNext == MobileType \/ MobileCall

(***************************************************************************)
(* Gender scoring: import_cvs.detect_gender and llm_utils.detect_gender     *)
(***************************************************************************)

\* gender_names.json as read at import time (the file is data, not code): a short
\* table with a name listed under both keys and a capitalised entry
NAME_DB_male == {"ravi", "kiran", "Amit"}

NAME_DB_female == {"asha", "kiran"}

\* import_cvs.MALE_NAMES / FEMALE_NAMES: the entries as listed
MALE_NAMES == NAME_DB_male

FEMALE_NAMES == NAME_DB_female

\* llm_utils.check_name compares against the lower-cased entries
GENDER_NAMES_male_lower == {Lower(x) : x \in NAME_DB_male}

GENDER_NAMES_female_lower == {Lower(x) : x \in NAME_DB_female}

\* sum of f[i] over a sequence of numbers
RECURSIVE SumSeq(_)
SumSeq(q) == IF q = <<>> THEN 0 ELSE Head(q) + SumSeq(Tail(q))

\* import_cvs.detect_gender, lines 125-162: the two totals
batch_male_score(text, extracted_name, llm_gender, email) ==
    LET text_lower == Lower(text)
        parts == IF extracted_name # DEFAULT_NA THEN SplitWords(extracted_name) ELSE <<>>
        first_email_name == Lower(SplitFirst(SplitFirst(email, "@"), "."))
    IN    (IF \E w \in {" he ", " him ", " his "} : Contains(text_lower, w) THEN 2 ELSE 0)
        + (IF HasWord(text_lower, {"mr"}) THEN 1 ELSE 0)
        + (IF llm_gender \notin {NoneV, DEFAULT_NA} /\ Lower(llm_gender) = "male" THEN 3 ELSE 0)
        + SumSeq([i \in 1..Len(parts) |-> IF Lower(parts[i]) \in MALE_NAMES THEN 5 ELSE 0])
        + (IF email # DEFAULT_NA /\ first_email_name \in MALE_NAMES THEN 2 ELSE 0)

batch_female_score(text, extracted_name, llm_gender, email) ==
    LET text_lower == Lower(text)
        parts == IF extracted_name # DEFAULT_NA THEN SplitWords(extracted_name) ELSE <<>>
        first_email_name == Lower(SplitFirst(SplitFirst(email, "@"), "."))
    IN    (IF \E w \in {" she ", " her ", " hers "} : Contains(text_lower, w) THEN 2 ELSE 0)
        + (IF HasWord(text_lower, {"ms", "mrs", "miss"}) THEN 1 ELSE 0)
        + (IF llm_gender \notin {NoneV, DEFAULT_NA} /\ Lower(llm_gender) = "female" THEN 3 ELSE 0)
        + SumSeq([i \in 1..Len(parts) |-> IF Lower(parts[i]) \in FEMALE_NAMES THEN 5 ELSE 0])
        + (IF email # DEFAULT_NA /\ first_email_name \in FEMALE_NAMES THEN 2 ELSE 0)

\* a slip: ">" where the code has ">="
batch_decide_strict(m, f) ==
    IF m = 0 /\ f = 0 THEN DEFAULT_NA
    ELSE IF m > f THEN "Male" ELSE "Female"

\* import_cvs.detect_gender, lines 165-167: the final decision
batch_decide(m, f) ==
    IF m = 0 /\ f = 0 THEN DEFAULT_NA
    ELSE IF m >= f THEN "Male" ELSE "Female"

batch_detect_gender(text, extracted_name, llm_gender, email) ==
    batch_decide(batch_male_score(text, extracted_name, llm_gender, email),
                 batch_female_score(text, extracted_name, llm_gender, email))

\* llm_utils.check_name: [male increment, female increment] for one name; the
\* female list is consulted only when the male list does not match (elif)
check_name(n, weight) ==
    IF Lower(n) \in GENDER_NAMES_male_lower THEN <<weight, 0>>
    ELSE IF Lower(n) \in GENDER_NAMES_female_lower THEN <<0, weight>>
    ELSE <<0, 0>>

\* llm_utils.detect_gender, lines 67-89: the two totals, side 1 male, side 2 female
llm_score(name, text, email, side) ==
    LET parts == IF Truthy(name) THEN SplitWords(name) ELSE <<>>
        text_lower == Lower(text)
        pron == IF side = 1 THEN {"he", "him", "his"} ELSE {"she", "her", "hers"}
    IN    SumSeq([i \in 1..Len(parts) |-> check_name(parts[i], 5)[side]])
        + (IF Truthy(email) /\ Contains(email, "@")
           THEN check_name(SplitFirst(SplitFirst(email, "@"), "."), 2)[side] ELSE 0)
        + (IF HasWord(text_lower, pron) THEN 3 ELSE 0)

\* llm_utils.detect_gender, lines 91-95: the final decision
llm_decide(m, f) ==
    IF m > f THEN "Male"
    ELSE IF f > m THEN "Female"
    ELSE DEFAULT_NA

llm_detect_gender(name, text, email) ==
    llm_decide(llm_score(name, text, email, 1), llm_score(name, text, email, 2))

\* how many tokens a text argument is made of
MaxTextTokens == 3

GenderTokens == {" he ", " she", "Mr.", "Miss "}

RECURSIVE TextsUpTo(_)
TextsUpTo(n) ==
    IF n = 0 THEN {""}
    ELSE LET S == TextsUpTo(n - 1) IN S \cup {s \o t : s \in S, t \in GenderTokens}

GenderNames == {DEFAULT_NA, "Ravi", "Asha Rao", "Kiran", "Ravi Asha", "Amit"}

GenderLLM == {DEFAULT_NA, NoneV, "Male", "female", "Other"}

GenderEmails == {DEFAULT_NA, "asha.rao@x.com", "RAVI@y.in", "kiran"}

GenderInit ==
    /\ gender_pc = "input"
    /\ g_text \in TextsUpTo(MaxTextTokens)
    /\ g_name \in GenderNames
    /\ g_llm \in GenderLLM
    /\ g_email \in GenderEmails
    /\ male_score = 0
    /\ female_score = 0
    /\ gender_out = ""

GenderIdle ==
    /\ gender_pc = "idle"
    /\ g_text = ""
    /\ g_name = ""
    /\ g_llm = ""
    /\ g_email = ""
    /\ male_score = 0
    /\ female_score = 0
    /\ gender_out = ""

\* the call import_cvs.detect_gender(text, extracted_name, llm_gender, email)
GenderCallBatch ==
    /\ gender_pc = "input"
    /\ LET m == batch_male_score(g_text, g_name, g_llm, g_email)
           f == batch_female_score(g_text, g_name, g_llm, g_email)
       IN  /\ male_score' = m
           /\ female_score' = f
           /\ gender_out' = batch_decide(m, f)
    /\ gender_pc' = "batch"
    /\ UNCHANGED <<g_text, g_name, g_llm, g_email>>
    /\ UNCHANGED NotGender

\* the call llm_utils.detect_gender(name, text, email)
GenderCallLLM ==
    /\ gender_pc = "input"
    /\ LET m == llm_score(g_name, g_text, g_email, 1)
           f == llm_score(g_name, g_text, g_email, 2)
       IN  /\ male_score' = m
           /\ female_score' = f
           /\ gender_out' = llm_decide(m, f)
    /\ gender_pc' = "llm"
    /\ UNCHANGED <<g_text, g_name, g_llm, g_email>>
    /\ UNCHANGED NotGender

GenderNext == GenderCallBatch \/ GenderCallLLM

(***************************************************************************)
(* llm_utils: _generate, _extract_json_from_text, extract_full_cv_fields    *)
(***************************************************************************)

\* What the model collaborator does with one prompt, as a record
\*   [api, form, obj, text]
\* api  "raise" when client.models.generate_content raises, else "ok";
\* form the shape of the text it answers with:
\*      "empty"     the empty string
\*      "object"    a JSON object
\*      "fenced"    a JSON object inside a ```json ... ``` fence
\*      "embedded"  a JSON object inside a sentence
\*      "array"     valid JSON that is not an object
\*      "prose"     text without braces
\*      "badbraces" braces around text that is not JSON
\* obj  the dictionary the JSON object denotes; text the answer when there is none.

\* _generate, lines 54-60: the text handed to the parser; an API error gives ""
generate(resp) ==
    IF resp.api = "raise"
    THEN [form |-> "empty", obj |-> EmptyDict, text |-> ""]
    ELSE [form |-> resp.form, obj |-> resp.obj, text |-> resp.text]

\* _extract_json_from_text, lines 36-51: [kind, val], kind "dict" or "nondict"
extract_json_from_text(raw) ==
    CASE raw.form = "empty"     -> [kind |-> "dict", val |-> EmptyDict]
      [] raw.form = "object"    -> [kind |-> "dict", val |-> raw.obj]
      [] raw.form = "fenced"    -> [kind |-> "dict", val |-> raw.obj]
      [] raw.form = "embedded"  -> [kind |-> "dict", val |-> raw.obj]
      [] raw.form = "array"     -> [kind |-> "nondict", val |-> EmptyDict]
      [] OTHER                  -> [kind |-> "dict", val |-> Put(EmptyDict, "raw_output", raw.text)]

\* normalize_bfsi_score, lines 101-108, then str(... or ""), line 147.  Scores
\* above 10 are whole numbers in the model, so the division by 10 is exact.
finscore_text(score) ==
    LET f == PyFloatTenths(score)
        t == IF f.tenths > 100 THEN f.tenths \div 10 ELSE f.tenths
    IN  IF f.ok /\ t # 0 THEN TenthsStr(t) ELSE ""

\* datetime.now().year
CURRENT_YEAR == 2026

\* lines 155-165: the age fallback of extract_full_cv_fields
llm_age(result) ==
    IF Truthy(GetOrNone(result, "cv_dateofbirth"))
    THEN LET dob == StrpYMD(result["cv_dateofbirth"])
         IN  IF dob.ok THEN ToString(CURRENT_YEAR - dob.year) ELSE DEFAULT_NA
    ELSE IF Truthy(GetOrNone(result, "cv_graduationyear"))
    THEN LET grad == PyInt(result["cv_graduationyear"])
         IN  IF grad.ok THEN ToString(CURRENT_YEAR - grad.val + 22) ELSE DEFAULT_NA
    ELSE DEFAULT_NA

LOCATION_KEYS == {"cv_location_area", "cv_location_city", "cv_location_state", "cv_current_location"}

PAST_KEYS == <<"cv_pastcompanies", "cv_pastdesignations", "cv_pastduration">>

\* lines 168-170: a missing or falsy location field becomes the sentinel
llm_fill_locations(result) ==
    [k \in (DOMAIN result) \cup LOCATION_KEYS |->
        IF k \in LOCATION_KEYS /\ ~Truthy(GetOrNone(result, k)) THEN DEFAULT_NA ELSE result[k]]

\* lines 176-177: a list becomes its non-None items joined, or the sentinel
llm_join_list(v) ==
    LET cleaned == Without(ListItems(v), {NoneV})
    IN  IF cleaned # <<>> THEN Join(cleaned, ", ") ELSE DEFAULT_NA

\* lines 174-183 with every key present: list values are joined
llm_join_past(result) ==
    [k \in DOMAIN result |->
        IF k \in {PAST_KEYS[i] : i \in 1..3} /\ IsList(result[k])
        THEN llm_join_list(result[k]) ELSE result[k]]

\* lines 174-183: result[key] is read for each of the three keys in order; the
\* first one missing raises KeyError
llm_past(result) ==
    LET missing == {i \in 1..3 : PAST_KEYS[i] \notin DOMAIN result}
    IN  IF missing # {}
        THEN [kind |-> "raise", val |-> EmptyDict,
              exc |-> "'" \o PAST_KEYS[CHOOSE i \in missing : \A j \in missing : i <= j] \o "'"]
        ELSE [kind |-> "ok", val |-> llm_join_past(result), exc |-> ""]

\* extract_full_cv_fields, lines 114-185: [kind, val, exc]; kind "ok" with the
\* dictionary returned, or "raise" with str(e) of the exception that leaves it
extract_full_cv_fields(text, resp) ==
    LET \* line 147
        scored(r) == Put(r, "cv_finscore", finscore_text(GetOrNone(r, "cv_finscore")))
        \* lines 150-152
        gendered(r) ==
            Put(r, "cv_gender",
                llm_detect_gender(Get(r, "cv_username", DEFAULT_NA), text,
                                  Get(r, "cv_email", DEFAULT_NA)))
        \* lines 155-165
        aged(r) == Put(r, "cv_age", llm_age(r))
        \* lines 144-185
        completed(parsed) ==
            IF parsed.kind = "nondict"
            THEN [kind |-> "raise", val |-> EmptyDict,
                  exc |-> "'list' object has no attribute 'get'"]
            ELSE llm_past(llm_fill_locations(aged(gendered(scored(parsed.val)))))
    IN  completed(extract_json_from_text(generate(resp)))

\* The answers of the model collaborator the harness draws from: JSON objects as
\* dictionaries (a JSON array is a list value, a JSON null is None) ...
O_asha ==
    [cv_username |-> "Asha Rao", cv_email |-> "asha@corp.com",
     cv_mobile_number |-> "9000000001", cv_pincode |-> "400001", cv_summary |-> "Banker",
     cv_pastcompanies |-> ListV(<<"HDFC", NoneV, "">>), cv_pastdesignations |-> ListV(<<>>),
     cv_pastduration |-> "2y", cv_finscore |-> "85", cv_dateofbirth |-> "1990-05-17",
     cv_technicalskills |-> ListV(<<"Excel", "", NoneV>>), notes |-> "x",
     cv_location_city |-> "Pune", cv_location_state |-> "Maharashtra", cv_cvscore |-> "7.5"]

O_min ==
    [cv_username |-> "", cv_graduationyear |-> "2012",
     cv_pincode |-> ListV(<<"400001", NoneV>>), cv_pastcompanies |-> ListV(<<>>),
     cv_pastdesignations |-> ListV(<<>>), cv_pastduration |-> ListV(<<>>)]

O_null ==
    [cv_username |-> NoneV, cv_email |-> NoneV, cv_mobile_number |-> NoneV,
     cv_dateofbirth |-> NoneV, cv_pastcompanies |-> NoneV, cv_pastdesignations |-> "",
     cv_pastduration |-> ListV(<<NoneV>>)]

O_ravi ==
    [cv_username |-> "Ravi Kumar", cv_gender |-> "Female",
     cv_pastcompanies |-> ListV(<<"ICICI", "HDFC">>), cv_pastdesignations |-> "RM",
     cv_pastduration |-> ListV(<<>>), cv_dateofbirth |-> "1990-02-30",
     cv_graduationyear |-> "2010"]

O_nopast == [cv_username |-> "Ravi Kumar"]

\* ... and the ways an answer can arrive (see generate)
Answer(form, obj, text) == [api |-> "ok", form |-> form, obj |-> obj, text |-> text]

ModelFailures ==
    { [api |-> "raise", form |-> "empty", obj |-> EmptyDict, text |-> ""],
      Answer("empty", EmptyDict, ""),
      Answer("prose", EmptyDict, "I cannot read this document."),
      Answer("badbraces", EmptyDict, "{cv_username: Asha"),
      Answer("array", EmptyDict, "[1, 2]") }

ModelAnswers ==
    { Answer("object", O_asha, ""), Answer("fenced", O_min, ""), Answer("embedded", O_null, ""),
      Answer("object", O_ravi, ""), Answer("object", O_nopast, "") }

ModelResponses == ModelFailures \cup ModelAnswers

(***************************************************************************)
(* extractors/pdf_utils.is_scanned_pdf_bytes                                *)
(***************************************************************************)

\* page.get_text raising, as a page outcome (a reserved spelling, not a text)
PageRaises == "<raise>"

\* len(re.sub(r"\s+", "", txt)): the number of non-blank characters
NonSpaceLen(s) == Cardinality({i \in 1..Len(s) : ~IsSpace(CharAt(s, i))})

\* lines 26-27: txt = page.get_text("text") or ""; len(re.sub(r"\s+", "", txt))
page_chars(txt) == NonSpaceLen(IF txt = NoneV THEN "" ELSE txt)

\* the default of the parameter min_chars
MIN_CHARS_DEFAULT == 200

\* lines 25-30, from page i on with text_chars accumulated so far:
\* [out, read, raised] where read is the number of pages get_text was called on
RECURSIVE scan_loop(_, _, _, _)
scan_loop(pp, i, text_chars, mc) ==
    IF i > Len(pp) THEN [out |-> TRUE, read |-> i - 1, raised |-> FALSE]
    ELSE IF pp[i] = PageRaises THEN [out |-> TRUE, read |-> i, raised |-> FALSE]
    ELSE LET total == text_chars + page_chars(pp[i])
         IN  IF total >= mc THEN [out |-> FALSE, read |-> i, raised |-> FALSE]
             ELSE scan_loop(pp, i + 1, total, mc)

\* a slip: the early return is missing, the total is compared after the loop
RECURSIVE scan_loop_no_early_return(_, _, _, _)
scan_loop_no_early_return(pp, i, text_chars, mc) ==
    IF i > Len(pp) THEN [out |-> ~(text_chars >= mc), read |-> i - 1, raised |-> FALSE]
    ELSE IF pp[i] = PageRaises THEN [out |-> TRUE, read |-> i, raised |-> FALSE]
    ELSE scan_loop_no_early_return(pp, i + 1, text_chars + page_chars(pp[i]), mc)

is_scanned_no_early_return(fails, pp, mc) ==
    IF fails THEN [out |-> TRUE, read |-> 0, raised |-> FALSE]
    ELSE scan_loop_no_early_return(pp, 1, 0, mc)

\* is_scanned_pdf_bytes, lines 21-34
is_scanned_pdf_bytes(fails, pp, mc) ==
    IF fails THEN [out |-> TRUE, read |-> 0, raised |-> FALSE]
    ELSE scan_loop(pp, 1, 0, mc)

\* the most pages a document of the harness has
MaxPages == 3

RECURSIVE Repeat(_, _)
Repeat(u, n) == IF n = 0 THEN "" ELSE u \o Repeat(u, n - 1)

\* 10 non-blank characters and 2 blanks
TextUnit == "abcd efghij\n"

\* page outcomes: no text object, an empty page, a blank page, pages of 90, 100
\* and 200 non-blank characters, and a page whose get_text raises
PageOutcomes ==
    {NoneV, "", " \n\t", Repeat(TextUnit, 9), Repeat(TextUnit, 10), Repeat(TextUnit, 20),
     PageRaises}

RECURSIVE DocsUpTo(_)
DocsUpTo(n) ==
    IF n = 0 THEN {<<>>}
    ELSE LET S == DocsUpTo(n - 1) IN S \cup {Append(d, o) : d \in S, o \in PageOutcomes}

ScanInit ==
    /\ scan_pc = "input"
    /\ open_fails \in BOOLEAN
    /\ pages \in DocsUpTo(MaxPages)
    /\ min_chars \in {MIN_CHARS_DEFAULT, 100}
    /\ scan_read = 0
    /\ scan_raised = FALSE
    /\ scan_out = FALSE

ScanIdle ==
    /\ scan_pc = "idle"
    /\ open_fails = FALSE
    /\ pages = <<>>
    /\ min_chars = 0
    /\ scan_read = 0
    /\ scan_raised = FALSE
    /\ scan_out = FALSE

\* the call is_scanned_pdf_bytes(file_bytes, min_chars)
ScanCall ==
    /\ scan_pc = "input"
    /\ LET r == is_scanned_pdf_bytes(open_fails, pages, min_chars)
       IN  /\ scan_out' = r.out
           /\ scan_read' = r.read
           /\ scan_raised' = r.raised
    /\ scan_pc' = "done"
    /\ UNCHANGED <<open_fails, pages, min_chars>>
    /\ UNCHANGED NotScan

ScanNext == ScanCall

(***************************************************************************)
(* import_cvs.find_location_id                                              *)
(***************************************************************************)

\* a column of a row is a string or NULL (NoneV); SQL LOWER(col) = LOWER(:p) is
\* unknown, hence no match, on NULL
SqlLowerEq(col, param) == col # NoneV /\ Lower(col) = Lower(param)

\* :loc LIKE CONCAT('%', col, '%'): loc contains col, under the table's default
\* case-insensitive collation; CONCAT with NULL is NULL, hence no match
SqlLocLike(loc, col) == col # NoneV /\ Contains(Lower(loc), Lower(col))

\* whether each step's query is executed at all (lines 66, 75, 84)
AsksCityState(area, city, state, free) == city # DEFAULT_NA /\ state # DEFAULT_NA

AsksAreaCity(area, city, state, free) == area # DEFAULT_NA /\ city # DEFAULT_NA

AsksFreeText(area, city, state, free) == free # DEFAULT_NA

\* the rows each step's WHERE clause selects (lines 67-72, 76-81, 85-92)
RowsCityState(store, area, city, state, free) ==
    {r \in store : SqlLowerEq(r.city, Strip(city)) /\ SqlLowerEq(r.state, Strip(state))}

RowsAreaCity(store, area, city, state, free) ==
    {r \in store : SqlLowerEq(r.area, Strip(area)) /\ SqlLowerEq(r.city, Strip(city))}

RowsFreeText(store, area, city, state, free) ==
    {r \in store : SqlLocLike(free, r.area) \/ SqlLocLike(free, r.city) \/ SqlLocLike(free, r.state)}

\* a step that found rows returns one of them: LIMIT 1 without ORDER BY gives any
\* one of the selected rows (lines 72-74, 81-83, 92-94)
FirstRow(rows, consulted) == {[id |-> ToString(r.id), consulted |-> consulted] : r \in rows}

\* a slip: the area/city query is tried before the city/state query
find_location_id_area_first(store, area, city, state, free) ==
    LET a2 == AsksAreaCity(area, city, state, free)
        r2 == RowsAreaCity(store, area, city, state, free)
        c2 == IF a2 THEN <<2>> ELSE <<>>
        a1 == AsksCityState(area, city, state, free)
        r1 == RowsCityState(store, area, city, state, free)
        c1 == IF a1 THEN Append(c2, 1) ELSE c2
        a3 == AsksFreeText(area, city, state, free)
        r3 == RowsFreeText(store, area, city, state, free)
        c3 == IF a3 THEN Append(c1, 3) ELSE c1
    IN  IF a2 /\ r2 # {} THEN FirstRow(r2, c2)
        ELSE IF a1 /\ r1 # {} THEN FirstRow(r1, c1)
        ELSE IF a3 /\ r3 # {} THEN FirstRow(r3, c3)
        ELSE {[id |-> DEFAULT_NA, consulted |-> c3]}

\* find_location_id, lines 64-95: the set of [id, consulted] it can return, where
\* consulted lists the steps whose query was executed
find_location_id(store, area, city, state, free) ==
    LET a1 == AsksCityState(area, city, state, free)
        r1 == RowsCityState(store, area, city, state, free)
        c1 == IF a1 THEN <<1>> ELSE <<>>
        a2 == AsksAreaCity(area, city, state, free)
        r2 == RowsAreaCity(store, area, city, state, free)
        c2 == IF a2 THEN Append(c1, 2) ELSE c1
        a3 == AsksFreeText(area, city, state, free)
        r3 == RowsFreeText(store, area, city, state, free)
        c3 == IF a3 THEN Append(c2, 3) ELSE c2
    IN  IF a1 /\ r1 # {} THEN FirstRow(r1, c1)
        ELSE IF a2 /\ r2 # {} THEN FirstRow(r2, c2)
        ELSE IF a3 /\ r3 # {} THEN FirstRow(r3, c3)
        ELSE {[id |-> DEFAULT_NA, consulted |-> c3]}

\* the most rows the locations table of the harness holds
MaxRows == 3

\* candidate rows of the locations table
LocationRows ==
    { [id |-> 1, area |-> "Baner",   city |-> "Pune",   state |-> "Maharashtra"],
      [id |-> 2, area |-> "Andheri", city |-> "Mumbai", state |-> "Maharashtra"],
      [id |-> 3, area |-> "baner",   city |-> "PUNE",   state |-> "MH"],
      [id |-> 4, area |-> NoneV,     city |-> "Delhi",  state |-> "Delhi"] }

LocInit ==
    /\ loc_pc = "input"
    /\ locations \in {t \in SUBSET LocationRows : Cardinality(t) <= MaxRows}
    /\ q_area \in {DEFAULT_NA, "baner ", "Andheri"}
    /\ q_city \in {DEFAULT_NA, " pune", "Mumbai", "Goa"}
    /\ q_state \in {DEFAULT_NA, "maharashtra", "Delhi"}
    /\ q_free \in {DEFAULT_NA, "Baner, Pune", "near delhi", "Goa"}
    /\ loc_consulted = <<>>
    /\ loc_out = ""

LocIdle ==
    /\ loc_pc = "idle"
    /\ locations = {}
    /\ q_area = ""
    /\ q_city = ""
    /\ q_state = ""
    /\ q_free = ""
    /\ loc_consulted = <<>>
    /\ loc_out = ""

\* the call find_location_id(area, city, state, free_text_location)
LocCall ==
    /\ loc_pc = "input"
    /\ \E r \in find_location_id(locations, q_area, q_city, q_state, q_free) :
          /\ loc_out' = r.id
          /\ loc_consulted' = r.consulted
    /\ loc_pc' = "done"
    /\ UNCHANGED <<locations, q_area, q_city, q_state, q_free>>
    /\ UNCHANGED NotLoc

LocNext == LocCall

(***************************************************************************)
(* import_cvs: extract_text_from_file, basic_regex_overrides,               *)
(* calculate_age, calculate_cv_score, process_file                          *)
(***************************************************************************)

\* ALL_COLUMNS, lines 33-50
ALL_COLUMNS ==
    {"user_id", "username", "mobile_number", "email", "gender",
     "employed", "current_company", "current_designation", "destination", "work_experience",
     "current_location", "current_salary",
     "cv_username", "cv_mobile_number", "cv_gender", "cv_employed", "cv_current_company",
     "cv_sales_experience",
     "cv_work_experience", "cv_current_location", "cv_current_salary", "cv_jobrole",
     "cv_companyname", "cv_productscode",
     "cv_sub_productscode", "cv_departmentscode", "cv_sub_departmentscode",
     "cv_productspecializationcode",
     "cv_depatmentcategorycode", "cv_products_text", "cv_sub_products_text",
     "cv_specialization_text",
     "cv_departments_text", "cv_sub_departments_text", "cv_category_text", "cv_location_code",
     "cv_age", "cv_location_area",
     "cv_location_city", "cv_location_state", "cv_alternatephone", "cv_email", "cv_dateofbirth",
     "cv_preferredlocation",
     "cv_highestqualification", "cv_specialization", "cv_institutename", "cv_graduationyear",
     "cv_additionaldegrees",
     "cv_totalexperienceyears", "cv_currentcompany", "cv_currentdesignation", "cv_currentctc",
     "cv_expectedctc",
     "cv_noticeperiod", "cv_lastworkingday", "cv_pastcompanies", "cv_pastdesignations",
     "cv_pastduration",
     "cv_bfsisectorexperience", "cv_productexpertise", "cv_technicalskills",
     "cv_regulatoryknowledge",
     "cv_domainkeywords", "cv_teamhandlingexperienceyesno", "cv_achievements",
     "cv_revenuehandled",
     "cv_targetachievement", "cv_certifications", "cv_languagesknown", "cv_linkedinurl",
     "cv_cvscore", "cv_jobfitkeywords",
     "cv_possibleroles", "cv_relevantjdids", "cv_isleadershiprole", "cv_locationmatchscore",
     "cv_resumecompletenesscore",
     "cv_source", "cv_parsingstatus", "cv_parsingtimestamp", "cv_originalfilename",
     "cv_summary", "cv_pincode"}

\* The documents of the harness: the text the extractor returns for each.
AshaText == "Asha Rao\nr.asha@x.com\n+91 9876543210\nPune 411001\nShe led a team"

RaviText == "Curriculum Vitae\n\nMr. Ravi Kumar\nSales manager at HDFC"

KiranText == "  Kiran\nMail: Kiran@Z.com, kiran@z.com;\n9123456780 / 9876543210"

BlankText == "  \n "

\* EMAIL_REGEX.findall(text), line 52, on the documents of the harness
EMAIL_REGEX_findall(text) ==
    CASE text = AshaText  -> <<"r.asha@x.com">>
      [] text = KiranText -> <<"Kiran@Z.com", "kiran@z.com">>
      [] OTHER            -> <<>>

\* PHONE_REGEX.findall(text), line 53, on the documents of the harness
PHONE_REGEX_findall(text) ==
    CASE text = AshaText  -> <<"+91 9876543210">>
      [] text = KiranText -> <<"9123456780", "9876543210">>
      [] OTHER            -> <<>>

\* PINCODE_REGEX.findall(text), line 54, on the documents of the harness
PINCODE_REGEX_findall(text) ==
    CASE text = AshaText -> <<"411001">>
      [] OTHER           -> <<>>

\* re.sub(r"\s|-", "", s)
RECURSIVE RemoveSpaceDash(_)
RemoveSpaceDash(s) ==
    IF s = "" THEN ""
    ELSE (IF IsSpace(CharAt(s, 1)) \/ CharAt(s, 1) = "-" THEN "" ELSE CharAt(s, 1))
            \o RemoveSpaceDash(SubSeq(s, 2, Len(s)))

\* [f(x) for x in q]: here ln.strip()
StripEach(q) == [i \in 1..Len(q) |-> Strip(q[i])]

\* [ln.strip() for ln in text.splitlines() if ln.strip()], lines 113 and 245
NonEmptyLines(text) == Without(StripEach(SplitAll(text, "\n")), {""})

\* basic_regex_overrides, lines 109-119
basic_regex_overrides(text) ==
    LET email   == EMAIL_REGEX_findall(text)
        phone   == PHONE_REGEX_findall(text)
        pincode == PINCODE_REGEX_findall(text)
        lines   == NonEmptyLines(text)
    IN  [cv_email |-> IF email # <<>> THEN Strip(email[1]) ELSE DEFAULT_NA,
         cv_mobile_number |-> IF phone # <<>> THEN RemoveSpaceDash(phone[1]) ELSE DEFAULT_NA,
         cv_pincode |-> IF pincode # <<>> THEN pincode[1] ELSE DEFAULT_NA,
         cv_summary |-> IF lines # <<>>
                        THEN FirstN(Join(SubSeq(lines, 1, Min(4, Len(lines))), " "), 500)
                        ELSE DEFAULT_NA]

\* calculate_cv_score, lines 183-189
calculate_cv_score(ai_data) ==
    LET finscore == Get(ai_data, "cv_cvscore", DEFAULT_NA)
        f        == PyFloatTenths(finscore)
    IN  IF finscore # DEFAULT_NA /\ f.ok THEN TenthsStr(f.tenths) ELSE "0"

\* calculate_age, lines 194-204: an exception in either branch ends in the sentinel
calculate_age(ai_data) ==
    IF Get(ai_data, "cv_dateofbirth", DEFAULT_NA) # DEFAULT_NA
    THEN LET dob == StrpYMD(ai_data["cv_dateofbirth"])
         IN  IF dob.ok THEN ToString(CURRENT_YEAR - dob.year) ELSE DEFAULT_NA
    ELSE IF Get(ai_data, "cv_graduationyear", DEFAULT_NA) # DEFAULT_NA
    THEN LET grad == PyInt(ai_data["cv_graduationyear"])
         IN  IF grad.ok THEN ToString(CURRENT_YEAR - grad.val + 22) ELSE DEFAULT_NA
    ELSE DEFAULT_NA

\* What a call gives back: a value returned, or an exception with its str(e)
Returns(v) == [kind |-> "ok", val |-> v, exc |-> ""]

Raises(e) == [kind |-> "raise", val |-> EmptyDict, exc |-> e]

\* s.endswith(suffix)
EndsWith(s, suffix) == Len(s) >= Len(suffix) /\ LastN(s, Len(suffix)) = suffix

\* os.path.basename(p)
RECURSIVE Basename(_)
Basename(p) ==
    IF ~Contains(p, "/") THEN p ELSE Basename(SubSeq(p, 2, Len(p)))

\* os.path.join(folder, name)
PathJoin(folder, name) == folder \o "/" \o name

\* A file of the input folder as the extractors see it: [opens, text], opens FALSE
\* when open(path, "rb") raises, text what extract_text_from_pdf_bytes or
\* extract_text_from_docx_bytes returns for its bytes.
\* extract_text_from_file, lines 100-107: [kind, text, exc]
extract_text_from_file(path, doc) ==
    IF ~doc.opens
    THEN [kind |-> "raise", text |-> "", exc |-> "[Errno 13] Permission denied: '" \o path \o "'"]
    ELSE IF EndsWith(Lower(path), ".pdf") \/ EndsWith(Lower(path), ".docx")
    THEN [kind |-> "ok", text |-> doc.text, exc |-> ""]
    ELSE [kind |-> "ok", text |-> "", exc |-> ""]

\* lines 217-220: every list value becomes its truthy items joined, or the sentinel
pf_flatten(ai_data) ==
    [k \in DOMAIN ai_data |->
        IF IsList(ai_data[k])
        THEN LET cleaned == Without(ListItems(ai_data[k]), {NoneV, ""})
             IN  IF cleaned # <<>> THEN Join(cleaned, ", ") ELSE DEFAULT_NA
        ELSE ai_data[k]]

\* a slip: the regex value is used only where the model gave no value
pf_override_model_first(ai_data, overrides) ==
    [k \in (DOMAIN ai_data) \cup {o \in DOMAIN overrides : overrides[o] # DEFAULT_NA} |->
        IF k \in DOMAIN ai_data /\ Truthy(ai_data[k]) /\ ai_data[k] # DEFAULT_NA
        THEN ai_data[k] ELSE IF k \in DOMAIN overrides /\ overrides[k] # DEFAULT_NA
        THEN overrides[k] ELSE ai_data[k]]

\* lines 223-226: an override that is not the sentinel replaces the value
pf_override(ai_data, overrides) ==
    [k \in (DOMAIN ai_data) \cup {o \in DOMAIN overrides : overrides[o] # DEFAULT_NA} |->
        IF k \in DOMAIN overrides /\ overrides[k] # DEFAULT_NA THEN overrides[k] ELSE ai_data[k]]

\* lines 242-253 as indented in the source: the elif and the else belong to the
\* outer if, so they run whenever the model's name is usable
pf_username(ai_data, lines) ==
    LET username == IF Truthy(GetOrNone(ai_data, "cv_username"))
                    THEN ai_data["cv_username"] ELSE DEFAULT_NA
    IN  IF username = DEFAULT_NA \/ Strip(PyStr(username)) = ""
        THEN (IF lines # <<>> THEN lines[1] ELSE username)
        ELSE IF Truthy(GetOrNone(ai_data, "cv_email")) /\ ai_data["cv_email"] # DEFAULT_NA
        THEN SplitFirst(ai_data["cv_email"], "@")
        ELSE DEFAULT_NA

\* lines 272-276: the three past-employment fields exist and are strings
pf_past(ai_data) ==
    [k \in (DOMAIN ai_data) \cup {PAST_KEYS[i] : i \in 1..3} |->
        IF k \in {PAST_KEYS[i] : i \in 1..3}
        THEN (IF k \notin DOMAIN ai_data \/ ~Truthy(ai_data[k]) THEN DEFAULT_NA
              ELSE IF IsList(ai_data[k]) THEN Join(ListItems(ai_data[k]), ", ")
              ELSE ai_data[k])
        ELSE ai_data[k]]

\* datetime.now().strftime("%Y-%m-%d %H:%M:%S") and str(uuid.uuid4()): the clock
\* and the random source, read once per call
NOW_TEXT == "2026-11-05 10:00:00"

UUID_TEXT == "3f2c9a6e-0000-4000-8000-000000000001"

\* a slip: every key of ai_data that is a column is returned, whitelisted or not
pf_select_unlisted(ai_data, cols) ==
    [k \in (DOMAIN ai_data) \cap cols |-> ai_data[k]]

\* line 279: the returned dictionary
pf_select(ai_data, cols) ==
    [k \in ALL_COLUMNS \cap cols |-> Get(ai_data, k, DEFAULT_NA)]

\* process_file, lines 229-279, given the value find_location_id returned
pf_finish(a0, location_code, text_data, cols) ==
    LET \* lines 229-236
        stamped(a) ==
            Put(Put(Put(Put(Put(a, "cv_location_code", location_code),
                            "cv_parsingtimestamp", NOW_TEXT),
                        "cv_source", "OCR_UPLOAD"),
                    "cv_parsingstatus", "PARSED"),
                "user_id", UUID_TEXT)
        \* lines 240-255
        named(a) == Put(a, "username", pf_username(a, NonEmptyLines(text_data)))
        \* lines 258-259
        with_mobile(a) ==
            Put(a, "mobile_number",
                clean_mobile_number(IF Truthy(GetOrNone(a, "cv_mobile_number"))
                                    THEN a["cv_mobile_number"] ELSE DEFAULT_NA))
        \* line 260
        with_email(a) ==
            Put(a, "email", IF Truthy(GetOrNone(a, "cv_email"))
                            THEN a["cv_email"] ELSE DEFAULT_NA)
        \* lines 263-268
        with_gender(a) ==
            Put(a, "gender",
                batch_detect_gender(text_data, a["username"],
                                    Get(a, "cv_gender", DEFAULT_NA),
                                    Get(a, "cv_email", DEFAULT_NA)))
        \* line 271
        with_age(a) == Put(a, "cv_age", calculate_age(a))
        \* line 272
        with_score(a) == Put(a, "cv_cvscore", calculate_cv_score(a))
        \* detect_gender, line 158: email.split on None
        finish(a) ==
            IF Get(a, "cv_email", DEFAULT_NA) = NoneV
            THEN Raises("'NoneType' object has no attribute 'split'")
            ELSE Returns(pf_select(pf_past(with_score(with_age(with_gender(a)))), cols))
    IN  finish(with_email(with_mobile(named(stamped(a0)))))

\* engine.begin() or conn.execute raising while the database is unreachable
DB_ERROR == "(OperationalError) can't connect to MySQL server"

\* process_file, lines 209-279: the set of outcomes it can have ([kind, val, exc]);
\* more than one only where find_location_id's LIMIT 1 can pick among several rows
process_file(file_path, doc, resp, store, db_up, cols) ==
    LET \* lines 228-279
        located(a, text_data) ==
            {pf_finish(a, loc.id, text_data, cols) :
               loc \in find_location_id(store,
                         Get(a, "cv_location_area", DEFAULT_NA),
                         Get(a, "cv_location_city", DEFAULT_NA),
                         Get(a, "cv_location_state", DEFAULT_NA),
                         Get(a, "cv_current_location", DEFAULT_NA))}
        \* lines 216-227
        reconciled(extracted, text_data) ==
            IF extracted.kind = "raise" THEN {Raises(extracted.exc)}
            ELSE IF ~db_up THEN {Raises(DB_ERROR)}
            ELSE located(Put(pf_override(pf_flatten(extracted.val),
                                         basic_regex_overrides(text_data)),
                             "cv_originalfilename", Basename(file_path)),
                         text_data)
        \* lines 209-215
        given(read) ==
            IF read.kind = "raise" THEN {Raises(read.exc)}
            ELSE IF Strip(read.text) = "" THEN {Returns(EmptyDict)}
            ELSE reconciled(extract_full_cv_fields(read.text, resp), read.text)
    IN  given(extract_text_from_file(file_path, doc))

\* the harness around process_file: the arguments and the collaborators' answers
ProcPaths == {"input_cvs/a.pdf", "input_cvs/b.DOCX", "input_cvs/notes.txt"}

ProcDocs ==
    { [opens |-> FALSE, text |-> ""], [opens |-> TRUE, text |-> BlankText],
      [opens |-> TRUE, text |-> AshaText], [opens |-> TRUE, text |-> RaviText],
      [opens |-> TRUE, text |-> KiranText] }

\* an empty locations table, and one where two rows answer the same city and state
ProcStores ==
    { {},
      LocationRows \cup
        {[id |-> 5, area |-> "Kothrud", city |-> "pune", state |-> "maharashtra"]} }

\* the destination table's columns: all of ALL_COLUMNS, a key and a column of
\* its own, a few of them, none of them
ProcColumns ==
    { ALL_COLUMNS \cup {"id", "notes"},
      {"id", "username", "mobile_number", "cv_email", "cv_username", "cv_pastcompanies",
       "cv_originalfilename"},
      {"id", "created_at"} }

NoOutcome == [kind |-> "none", val |-> EmptyDict, exc |-> ""]

ProcInit ==
    /\ pf_pc = "input"
    /\ pf_path \in ProcPaths
    /\ pf_doc \in ProcDocs
    /\ pf_resp \in ModelResponses
    /\ pf_store \in ProcStores
    /\ pf_db \in BOOLEAN
    /\ pf_cols \in ProcColumns
    /\ pf_out = NoOutcome

ProcIdle ==
    /\ pf_pc = "idle"
    /\ pf_path = ""
    /\ pf_doc = [opens |-> FALSE, text |-> ""]
    /\ pf_resp = [api |-> "raise", form |-> "empty", obj |-> EmptyDict, text |-> ""]
    /\ pf_store = {}
    /\ pf_db = FALSE
    /\ pf_cols = {}
    /\ pf_out = NoOutcome

\* the call process_file(file_path, existing_cols)
ProcCall ==
    /\ pf_pc = "input"
    /\ \E o \in process_file(pf_path, pf_doc, pf_resp, pf_store, pf_db, pf_cols) : pf_out' = o
    /\ pf_pc' = "done"
    /\ UNCHANGED <<pf_path, pf_doc, pf_resp, pf_store, pf_db, pf_cols>>
    /\ UNCHANGED NotProc

ProcNext == ProcCall

(***************************************************************************)
(* extractors/layout.normalize_text                                         *)
(***************************************************************************)

\* str.splitlines(): the pieces between the line breaks "\n", "\r" and "\r\n",
\* without a last empty piece
SplitLines(s) ==
    LET n == Len(s)
        ends == {i \in 1..n : \/ CharAt(s, i) = "\n"
                              \/ CharAt(s, i) = "\r" /\ ~(i < n /\ CharAt(s, i + 1) = "\n")}
        m == Cardinality(ends)
        from(k) == IF k = 1 THEN 1 ELSE NthOf(ends, k - 1) + 1
        upto(k) == IF k = m + 1 THEN n
                   ELSE LET e == NthOf(ends, k)
                        IN  IF CharAt(s, e) = "\n" /\ e > 1 /\ CharAt(s, e - 1) = "\r"
                            THEN e - 2 ELSE e - 1
        count == IF m = 0 THEN (IF n = 0 THEN 0 ELSE 1)
                 ELSE IF NthOf(ends, m) < n THEN m + 1 ELSE m
    IN  [k \in 1..count |-> SubSeq(s, from(k), upto(k))]

\* re.sub(r"\r\n", "\n", t), line 9: a "\r" just before a "\n" goes
SubCrLf(s) ==
    Concat([i \in 1..Len(s) |->
               IF CharAt(s, i) = "\r" /\ i < Len(s) /\ CharAt(s, i + 1) = "\n"
               THEN "" ELSE CharAt(s, i)], 1, Len(s))

\* re.sub(r"[ \t]+", " ", t), line 10: the last blank of a run becomes the one
\* space, the blanks before it go
SubBlanks(s) ==
    Concat([i \in 1..Len(s) |->
               IF CharAt(s, i) \in {" ", "\t"}
               THEN (IF i < Len(s) /\ CharAt(s, i + 1) \in {" ", "\t"} THEN "" ELSE " ")
               ELSE CharAt(s, i)], 1, Len(s))

\* the pattern (\w)-\n(\w) fits at position j
HyphenBreakFits(s, j) ==
    /\ j >= 1 /\ j + 3 <= Len(s)
    /\ IsWordChar(CharAt(s, j)) /\ SubSeq(s, j + 1, j + 2) = "-\n"
    /\ IsWordChar(CharAt(s, j + 3))

\* matches are taken left to right and do not overlap: two fits overlap only
\* when they start three apart, so of a chain of fits j, j+3, j+6, ... the
\* first, third, ... are matches
HyphenBreakAt(s, j) ==
    /\ HyphenBreakFits(s, j)
    /\ Cardinality({k \in 1..(j \div 3) : \A m \in 1..k : HyphenBreakFits(s, j - 3 * m)}) % 2 = 0

\* re.sub(r"(\w)-\n(\w)", r"\1\2", t), line 12: the "-" and the "\n" of every
\* match go
SubHyphenBreak(s) ==
    Concat([i \in 1..Len(s) |->
               IF HyphenBreakAt(s, i - 1) \/ HyphenBreakAt(s, i - 2) THEN "" ELSE CharAt(s, i)],
           1, Len(s))

\* re.sub(r"\n{3,}", "\n\n", t), line 14: a "\n" that follows two others goes
SubBlankLines(s) ==
    Concat([i \in 1..Len(s) |->
               IF i >= 3 /\ SubSeq(s, i - 2, i) = "\n\n\n" THEN "" ELSE CharAt(s, i)],
           1, Len(s))

\* [x for x in q if x not in drop], line 19
SeqToSet(q) == {q[i] : i \in 1..Len(q)}

\* lines 16-20: with more than six non-empty lines, the lines equal to one of the
\* first two or the last two are dropped
trim_header_footer(t) ==
    LET lines == Without(StripEach(SplitLines(t)), {""})
    IN  IF Len(lines) > 6
        THEN LET head == SubSeq(lines, 1, 2)
                 tail == SubSeq(lines, Len(lines) - 1, Len(lines))
                 filtered == Without(lines, SeqToSet(head) \cup SeqToSet(tail))
             IN  IF filtered # <<>> THEN Join(filtered, "\n") ELSE Join(lines, "\n")
        ELSE t

\* normalize_text, lines 5-21 (unicodedata.normalize("NFKC", .) leaves the
\* characters of the model as they are)
normalize_text(text) ==
    IF text = "" THEN ""
    ELSE Strip(trim_header_footer(SubBlankLines(SubHyphenBreak(SubBlanks(SubCrLf(text))))))

(***************************************************************************)
(* Persistence: import_cvs.insert_into_db, db/crud.upsert_candidate_details *)
(***************************************************************************)

\* The table candidate_details is the sequence of its rows, each a dictionary.

\* insert_into_db, lines 284-292: [kind, table, exc]; an empty row_data returns
\* at once, before the database is touched; the database refuses an INSERT that
\* names a column the table (of columns cols) does not have
insert_into_db(row_data, cols, tbl, db_up) ==
    IF DOMAIN row_data = {} THEN [kind |-> "ok", table |-> tbl, exc |-> ""]
    ELSE IF ~db_up THEN [kind |-> "raise", table |-> tbl, exc |-> DB_ERROR]
    ELSE IF ~(DOMAIN row_data \subseteq cols)
    THEN [kind |-> "raise", table |-> tbl, exc |-> "(OperationalError) Unknown column"]
    ELSE [kind |-> "ok", table |-> Append(tbl, row_data), exc |-> ""]

\* upsert_candidate_details, lines 6-22: [kind, table, exc].  The statement is
\* INSERT ... ON DUPLICATE KEY UPDATE with mobile_number the table's unique key: a
\* row with the payload's mobile_number takes the payload's values, otherwise the
\* payload becomes a new row.
upsert_candidate_details(details, cols, tbl, db_up) ==
    IF ~db_up THEN [kind |-> "raise", table |-> tbl, exc |-> DB_ERROR]
    ELSE LET payload == [k \in (DOMAIN details) \cap cols |-> details[k]]
             same == {i \in 1..Len(tbl) :
                        /\ "mobile_number" \in DOMAIN payload
                        /\ "mobile_number" \in DOMAIN tbl[i]
                        /\ tbl[i]["mobile_number"] = payload["mobile_number"]}
         IN  IF DOMAIN payload = {}
             THEN [kind |-> "raise", table |-> tbl, exc |-> "No matching DB columns in payload."]
             ELSE IF same # {}
             THEN [kind |-> "ok", exc |-> "",
                   table |-> [i \in 1..Len(tbl) |->
                                 IF i \in same THEN Update(tbl[i], payload) ELSE tbl[i]]]
             ELSE [kind |-> "ok", table |-> Append(tbl, payload), exc |-> ""]

(***************************************************************************)
(* import_cvs.main: the batch run                                           *)
(***************************************************************************)

INPUT_FOLDER == "input_cvs"

ERROR_FOLDER == "error_cvs"

SUPPORTED_EXTENSIONS == {".pdf", ".docx"}

\* os.path.splitext(name)[1] for a name without a directory part
SplitExt(name) ==
    LET dots == {i \in 2..Len(name) : CharAt(name, i) = "."}
    IN  IF dots = {} THEN ""
        ELSE SubSeq(name, CHOOSE i \in dots : \A j \in dots : j <= i, Len(name))

\* line 306: the files main works on
Supported(folder) == {f \in folder : Lower(SplitExt(f)) \in SUPPORTED_EXTENSIONS}

\* the orders os.listdir can give a set of names in
Orderings(S) ==
    {q \in [1..Cardinality(S) -> S] : \A i, j \in 1..Cardinality(S) : i # j => q[i] # q[j]}

\* log_file_status, lines 301-303, and the summary write, lines 343-344: a line of
\* processed_files.log is [name, status], the text after the timestamp
StatusLine(file_name, status) == [name |-> file_name, status |-> status]

SummaryLine(total, processed, errors) ==
    [name |-> "SUMMARY",
     status |-> "Total: " \o ToString(total) \o " | Processed: " \o ToString(processed)
                    \o " | Errors: " \o ToString(errors)]

\* os.rename or open(LOG_FILE, "a") raising
OS_ERROR == "[Errno 28] No space left on device"

\* What the file system does to the four calls of one loop iteration that touch
\* it: TRUE where the call raises.  mv_try / lg_try are os.rename and
\* log_file_status inside the try block, mv_exc / lg_exc those of the handler.
NoFaults == [mv_try |-> FALSE, lg_try |-> FALSE, mv_exc |-> FALSE, lg_exc |-> FALSE]

FaultChoices(faulty) ==
    IF faulty
    THEN [mv_try : BOOLEAN, lg_try : BOOLEAN, mv_exc : BOOLEAN, lg_exc : BOOLEAN]
    ELSE {NoFaults}

\* lines 321-333, the try block of one iteration:
\* [raised, exc, stage, moved, table, lines, processed, errors]
main_try(file_name, outcome, cols, tbl, db_up, faults) ==
    LET base == [raised |-> FALSE, exc |-> "", stage |-> "none", moved |-> FALSE,
                 table |-> tbl, lines |-> <<>>, processed |-> 0, errors |-> 0]
    IN  IF outcome.kind = "raise"
        THEN [base EXCEPT !.raised = TRUE, !.exc = outcome.exc, !.stage = "process"]
        ELSE IF DOMAIN outcome.val = {}
        THEN (IF faults.mv_try
              THEN [base EXCEPT !.raised = TRUE, !.exc = OS_ERROR, !.stage = "move"]
              ELSE IF faults.lg_try
              THEN [base EXCEPT !.raised = TRUE, !.exc = OS_ERROR, !.stage = "log",
                                !.moved = TRUE]
              ELSE [base EXCEPT !.moved = TRUE, !.lines = <<StatusLine(file_name, "ERROR")>>,
                                !.errors = 1])
        ELSE LET ins == insert_into_db(outcome.val, cols, tbl, db_up)
             IN  IF ins.kind = "raise"
                 THEN [base EXCEPT !.raised = TRUE, !.exc = ins.exc, !.stage = "insert"]
                 ELSE IF faults.lg_try
                 THEN [base EXCEPT !.raised = TRUE, !.exc = OS_ERROR, !.stage = "log",
                                   !.table = ins.table]
                 ELSE [base EXCEPT !.table = ins.table,
                                   !.lines = <<StatusLine(file_name, "PROCESSED")>>,
                                   !.processed = 1]

\* a slip: the handler logs the error but leaves the file where it is
main_iteration_no_move(file_name, outcome, cols, tbl, db_up, faults) ==
    LET t == main_try(file_name, outcome, cols, tbl, db_up, faults)
    IN  IF ~t.raised THEN t @@ [escaped |-> FALSE]
        ELSE [t EXCEPT !.lines = <<StatusLine(file_name, "ERROR | " \o t.exc)>>,
                       !.errors = 1] @@ [escaped |-> FALSE]

\* a slip: the handler logs the error but does not count it
main_iteration_uncounted(file_name, outcome, cols, tbl, db_up, faults) ==
    LET t == main_try(file_name, outcome, cols, tbl, db_up, faults)
    IN  IF ~t.raised THEN t @@ [escaped |-> FALSE]
        ELSE IF t.moved \/ faults.mv_exc THEN t @@ [escaped |-> TRUE]
        ELSE IF faults.lg_exc THEN [t EXCEPT !.moved = TRUE] @@ [escaped |-> TRUE]
        ELSE [t EXCEPT !.moved = TRUE,
                       !.lines = <<StatusLine(file_name, "ERROR | " \o t.exc)>>]
                 @@ [escaped |-> FALSE]

\* lines 321-339, one iteration of the loop with its handler; escaped is TRUE
\* when an exception leaves the handler, and with it main.  os.rename raises
\* when the file is no longer in the input folder.
main_iteration(file_name, outcome, cols, tbl, db_up, faults) ==
    LET t == main_try(file_name, outcome, cols, tbl, db_up, faults)
    IN  IF ~t.raised THEN t @@ [escaped |-> FALSE]
        ELSE IF t.moved \/ faults.mv_exc THEN t @@ [escaped |-> TRUE]
        ELSE IF faults.lg_exc THEN [t EXCEPT !.moved = TRUE] @@ [escaped |-> TRUE]
        ELSE [t EXCEPT !.moved = TRUE,
                       !.lines = <<StatusLine(file_name, "ERROR | " \o t.exc)>>,
                       !.errors = 1] @@ [escaped |-> FALSE]

\* the most files the input folder of the harness holds
MaxFiles == 2

\* names the input folder can hold; one of them main does not pick up
FileNames == {"a.pdf", "b.docx", "C.PDF", "notes.txt"}

\* get_existing_columns("candidate_details"), lines 59-62: the DESCRIBE raising,
\* or the column names it lists
DescribeOutcomes ==
    { [kind |-> "raise", cols |-> {}],
      [kind |-> "ok", cols |-> {}],
      [kind |-> "ok", cols |-> {"id", "created_at"}],
      [kind |-> "ok", cols |-> {"id", "username", "mobile_number", "cv_email", "cv_username",
                                "cv_pastcompanies", "cv_originalfilename"}] }

\* what the harness lets a file of the folder be, and the model answer to it
BatchDocs ==
    { [opens |-> FALSE, text |-> ""], [opens |-> TRUE, text |-> BlankText],
      [opens |-> TRUE, text |-> AshaText], [opens |-> TRUE, text |-> RaviText] }

BatchResponses ==
    { [api |-> "raise", form |-> "empty", obj |-> EmptyDict, text |-> ""],
      Answer("object", O_asha, ""), Answer("embedded", O_null, "") }

\* the log is opened in append mode: what an earlier run left in it stays
PriorLog == <<StatusLine("old.pdf", "PROCESSED"), SummaryLine(1, 1, 0)>>

BatchInit ==
    /\ main_pc = "start"
    /\ input_folder \in {S \in SUBSET FileNames : Cardinality(S) <= MaxFiles}
    /\ error_folder = {}
    /\ files = <<>>
    /\ existing_cols = {}
    /\ idx = 0
    /\ total_processed = 0
    /\ total_errors = 0
    /\ log = PriorLog
    /\ log_start = Len(log)
    /\ table = <<>>
    /\ attempts = <<>>
    /\ fs_faulty = FALSE

\* the most files the input folder holds in a run on a failing file system
MaxFaultyFiles == 1

\* a run in which os.rename and the appends to the log can raise
FaultyBatchInit ==
    /\ main_pc = "start"
    /\ input_folder \in {S \in SUBSET FileNames : Cardinality(S) <= MaxFaultyFiles}
    /\ error_folder = {}
    /\ files = <<>>
    /\ existing_cols = {}
    /\ idx = 0
    /\ total_processed = 0
    /\ total_errors = 0
    /\ log = PriorLog
    /\ log_start = Len(log)
    /\ table = <<>>
    /\ attempts = <<>>
    /\ fs_faulty = TRUE

BatchIdle ==
    /\ main_pc = "idle"
    /\ input_folder = {}
    /\ error_folder = {}
    /\ files = <<>>
    /\ existing_cols = {}
    /\ idx = 0
    /\ total_processed = 0
    /\ total_errors = 0
    /\ log = <<>>
    /\ log_start = 0
    /\ table = <<>>
    /\ attempts = <<>>
    /\ fs_faulty = FALSE

\* main, lines 306-315: list the folder, read the columns, abort on none
MainStart ==
    /\ main_pc = "start"
    /\ \E order \in Orderings(Supported(input_folder)), d \in DescribeOutcomes :
          /\ files' = order
          /\ existing_cols' = d.cols
          /\ main_pc' = IF d.kind = "raise" THEN "crashed"
                        ELSE IF d.cols = {} THEN "aborted" ELSE "loop"
    /\ idx' = 1
    /\ UNCHANGED <<input_folder, error_folder, total_processed, total_errors, log, log_start,
                   table, attempts, fs_faulty>>
    /\ UNCHANGED NotBatch

\* main, lines 317-339: one iteration of the loop, handler included
MainFile ==
    /\ main_pc = "loop"
    /\ idx <= Len(files)
    /\ \E doc \in BatchDocs, resp \in BatchResponses, db_up \in BOOLEAN, db_ins \in BOOLEAN,
          faults \in FaultChoices(fs_faulty) :
          \E outcome \in process_file(PathJoin(INPUT_FOLDER, files[idx]), doc, resp,
                                      LocationRows, db_up, existing_cols) :
             LET r == main_iteration(files[idx], outcome, existing_cols, table, db_ins, faults)
             IN  /\ input_folder' = IF r.moved THEN input_folder \ {files[idx]} ELSE input_folder
                 /\ error_folder' = IF r.moved THEN error_folder \cup {files[idx]} ELSE error_folder
                 /\ table' = r.table
                 /\ log' = log \o r.lines
                 /\ total_processed' = total_processed + r.processed
                 /\ total_errors' = total_errors + r.errors
                 /\ attempts' = Append(attempts,
                                       [file |-> files[idx], raised |-> r.raised, exc |-> r.exc,
                                        stage |-> r.stage, escaped |-> r.escaped,
                                        inserted |-> Len(r.table) > Len(table)])
                 /\ main_pc' = IF r.escaped THEN "crashed" ELSE "loop"
    /\ idx' = idx + 1
    /\ UNCHANGED <<files, existing_cols, log_start, fs_faulty>>
    /\ UNCHANGED NotBatch

\* main, lines 342-344: the summary line after the last file
MainSummary ==
    /\ main_pc = "loop"
    /\ idx > Len(files)
    /\ \E raises \in (IF fs_faulty THEN BOOLEAN ELSE {FALSE}) :
          /\ log' = IF raises THEN log
                    ELSE Append(log, SummaryLine(Len(files), total_processed, total_errors))
          /\ main_pc' = IF raises THEN "crashed" ELSE "done"
    /\ UNCHANGED <<input_folder, error_folder, files, existing_cols, idx, total_processed,
                   total_errors, log_start, table, attempts, fs_faulty>>
    /\ UNCHANGED NotBatch

BatchNext == MainStart \/ MainFile \/ MainSummary

(***************************************************************************)
(* app.upload_resume: the request handler                                   *)
(***************************************************************************)

PDF_TYPE == "application/pdf"

DOCX_TYPES ==
    {"application/vnd.openxmlformats-officedocument.wordprocessingml.document",
     "application/msword"}

\* the character classes of EMAIL_RE, entities.py line 10 (re.I, ASCII text)
IsLetter(c) == c \in UpperSet \cup LowerSet

IsLocalChar(c) == IsLetter(c) \/ IsDigit(c) \/ c \in {".", "_", "%", "+", "-"}

IsDomainChar(c) == IsLetter(c) \/ IsDigit(c) \/ c \in {".", "-"}

\* the first position from `from` on whose character is not of the class, or
\* Len(text) + 1: where a greedy run of the class that starts at `from` ends
RunEnd(text, from, InClass(_)) ==
    CHOOSE j \in from..(Len(text) + 1) :
        /\ j = Len(text) + 1 \/ ~InClass(CharAt(text, j))
        /\ \A i \in from..(j - 1) : InClass(CharAt(text, i))

\* the dots of the domain run at..de-1 that two letters follow: where
\* \.[A-Za-z]{2,} can start once [A-Za-z0-9.-]+ has taken one character at least
TldDots(text, at, de) ==
    {k \in (at + 2)..(de - 3) :
        /\ CharAt(text, k) = "."
        /\ IsLetter(CharAt(text, k + 1))
        /\ IsLetter(CharAt(text, k + 2))}

\* the greatest element of a non-empty set of positions
Greatest(S) == CHOOSE k \in S : \A j \in S : j <= k

\* the least element of a non-empty set of positions
Least(S) == CHOOSE k \in S : \A j \in S : k <= j

\* EMAIL_RE.match at position s: the position after the match, or 0 when there is
\* none.  The local part is the whole run of local characters from s, which an
\* "@" must follow; the domain is greedy, so the last dot of the domain run that
\* two letters follow starts the top-level part, which takes every letter
EmailEnd(text, s) ==
    LET domain_from(at) ==
            IF at = s \/ at > Len(text) \/ CharAt(text, at) # "@" THEN 0
            ELSE IF TldDots(text, at, RunEnd(text, at + 1, IsDomainChar)) = {} THEN 0
            ELSE RunEnd(text,
                        Greatest(TldDots(text, at, RunEnd(text, at + 1, IsDomainChar))) + 1,
                        IsLetter)
    IN domain_from(RunEnd(text, s, IsLocalChar))

\* EMAIL_RE.finditer(text) from position pos on: the matches, left to right, none
\* overlapping
RECURSIVE EMAIL_RE_finditer(_, _)
EMAIL_RE_finditer(text, pos) ==
    LET found(starts) ==
            IF starts = {} THEN <<>>
            ELSE <<SubSeq(text, Least(starts), EmailEnd(text, Least(starts)) - 1)>>
                 \o EMAIL_RE_finditer(text, EmailEnd(text, Least(starts)))
    IN found({s \in pos..Len(text) : EmailEnd(text, s) # 0})

\* str.strip(chars): the characters of chars taken off both ends
StripChars(s, chars) ==
    LET kept(keep) ==
            IF keep = {} THEN "" ELSE SubSeq(s, Least(keep), Greatest(keep))
    IN kept({i \in 1..Len(s) : CharAt(s, i) \notin chars})

\* extract_emails, entities.py lines 14-15: every match lower-cased and
\* stripped of " ,;", in the order of the text, repeats kept
extract_emails(text) ==
    LET lowered(all) == [i \in 1..Len(all) |-> StripChars(Lower(all[i]), {" ", ",", ";"})]
    IN lowered(EMAIL_RE_finditer(text, 1))

\* extract_phones, entities.py lines 17-27, on the documents of the harness (the
\* valid numbers in E.164 form, repeats dropped)
extract_phones(text) ==
    CASE text = normalize_text(AshaText)  -> <<"+919876543210">>
      [] text = normalize_text(KiranText) -> <<"+919123456780", "+919876543210">>
      [] OTHER                            -> <<>>

\* the mapping of lines 38-44, as <<model field, record field>>
REQUEST_MAPPING ==
    { <<"cv_username", "username">>, <<"cv_mobile_number", "mobile_number">>,
      <<"cv_gender", "gender">>, <<"cv_current_company", "current_company">>,
      <<"cv_jobrole", "jobrole">>, <<"cv_location_city", "current_location">>,
      <<"cv_current_salary", "current_salary">>, <<"cv_products_text", "products">>,
      <<"cv_sub_products_text", "sub_products">>, <<"cv_location_code", "location_code">>,
      <<"cv_age", "age">> }

\* lines 46-49: the mapped fields the model gave a value other than None and ""
fill_from_llm(llm_info) ==
    LET given == {m \in REQUEST_MAPPING : GetOrNone(llm_info, m[1]) \notin {NoneV, ""}}
    IN  [v \in {m[2] : m \in given} |-> llm_info[(CHOOSE m \in given : m[2] = v)[1]]]

\* lines 52-57: local values only where the model gave none
fallback_local(details, phones, name, emails) ==
    LET d1 == IF "mobile_number" \notin DOMAIN details /\ phones # <<>>
              THEN Put(details, "mobile_number", phones[1]) ELSE details
        d2 == IF "username" \notin DOMAIN d1 /\ Truthy(name)
              THEN Put(d1, "username", name) ELSE d1
    IN  IF "username" \notin DOMAIN d2 /\ emails # <<>>
        THEN Put(d2, "username", SplitFirst(emails[1], "@")) ELSE d2

\* upload_resume, lines 12-67: [kind, details, table, exc], kind "ok" (the
\* response {"status": "ok", "extracted": details}), "http400" or "raise".
\* extracted is the text the PDF or DOCX extractor returns for the upload, name
\* what extract_name finds, info what extract_information_from_text does
\* ([kind, val], kind "raise", "none" or "dict"), fin what
\* extract_finscore_from_text returns.
upload_resume(content_type, filename, extracted, name, info, fin, upload_to_db, cols, tbl, db_up) ==
    IF content_type # PDF_TYPE /\ content_type \notin DOCX_TYPES
    THEN [kind |-> "http400", details |-> EmptyDict, table |-> tbl,
          exc |-> "Only PDF or DOCX"]
    ELSE LET \* lines 59-66
             respond(details, up) ==
                 IF upload_to_db /\ Truthy(GetOrNone(details, "mobile_number"))
                 THEN IF up.kind = "raise"
                      THEN [kind |-> "raise", details |-> details, table |-> tbl,
                            exc |-> up.exc]
                      ELSE [kind |-> "ok", details |-> details, table |-> up.table,
                            exc |-> ""]
                 ELSE [kind |-> "ok", details |-> details, table |-> tbl, exc |-> ""]
             stored(d) == respond(d, upsert_candidate_details(d, cols, tbl, db_up))
             \* lines 24-57
             built(normalized) ==
                 Put(Put(Put(fallback_local(
                                 fill_from_llm(IF info.kind = "dict" THEN info.val
                                               ELSE EmptyDict),
                                 extract_phones(normalized), name,
                                 extract_emails(normalized)),
                             "resume", "uploaded_" \o filename),
                         "created", NoneV),
                     "cv_summary", fin)
         IN  stored(built(normalize_text(extracted)))

\* what extract_information_from_text can do with a text: raise, return None,
\* return a dictionary
I_asha ==
    [cv_username |-> "Asha Rao", cv_mobile_number |-> "9000000001", cv_gender |-> "Female",
     cv_location_city |-> "Pune", cv_age |-> "36", cv_email |-> "asha@corp.com"]

I_blank == [cv_username |-> "", cv_mobile_number |-> NoneV, cv_jobrole |-> "Teller"]

InfoOutcomes ==
    { [kind |-> "raise", val |-> EmptyDict], [kind |-> "none", val |-> EmptyDict],
      [kind |-> "dict", val |-> EmptyDict], [kind |-> "dict", val |-> I_asha],
      [kind |-> "dict", val |-> I_blank] }

\* what extract_finscore_from_text can return
FinscoreOutcomes == {NoneV, "8.5"}

\* the destination table's columns: some of the record's fields, none of them
ReqColumns ==
    { {"id", "username", "mobile_number", "gender", "resume", "cv_summary", "created"},
      {"id", "created_at"} }

ReqTables == {<<>>, <<[mobile_number |-> "9000000001", username |-> "A. Rao"]>>}

NoResponse == [kind |-> "none", details |-> EmptyDict, table |-> <<>>, exc |-> ""]

ReqInit ==
    /\ req_pc = "input"
    /\ req_ctype \in {PDF_TYPE, "application/msword", "text/plain"}
    /\ req_text \in {AshaText, KiranText, RaviText, ""}
    /\ req_name \in {NoneV, "Asha R"}
    /\ req_info \in InfoOutcomes
    /\ req_fin \in FinscoreOutcomes
    /\ req_upload \in BOOLEAN
    /\ req_cols \in ReqColumns
    /\ req_db \in BOOLEAN
    /\ req_table \in ReqTables
    /\ req_out = NoResponse

ReqIdle ==
    /\ req_pc = "idle"
    /\ req_ctype = ""
    /\ req_text = ""
    /\ req_name = NoneV
    /\ req_info = [kind |-> "none", val |-> EmptyDict]
    /\ req_fin = NoneV
    /\ req_upload = FALSE
    /\ req_cols = {}
    /\ req_db = FALSE
    /\ req_table = <<>>
    /\ req_out = NoResponse

\* the request POST /upload_resume
ReqCall ==
    /\ req_pc = "input"
    /\ \E r \in {upload_resume(req_ctype, "cv.pdf", req_text, req_name, req_info, req_fin,
                                req_upload, req_cols, req_table, req_db)} :
          /\ req_out' = r
          /\ req_table' = r.table
    /\ req_pc' = "done"
    /\ UNCHANGED <<req_ctype, req_text, req_name, req_info, req_fin, req_upload, req_cols,
                   req_db>>
    /\ UNCHANGED NotReq

ReqNext == ReqCall

(***************************************************************************)
(* The persistence helpers called on their own                              *)
(***************************************************************************)

PersistRecords ==
    { EmptyDict, [note |-> "x"], [mobile_number |-> "9000000001", username |-> "Asha Rao"],
      [username |-> "Ravi", note |-> "x"] }

PersistInit ==
    /\ ps_pc = "input"
    /\ ps_record \in PersistRecords
    /\ ps_cols \in ReqColumns
    /\ ps_db \in BOOLEAN
    /\ ps_table \in ReqTables
    /\ ps_before = ps_table
    /\ ps_out = [kind |-> "none", exc |-> ""]

PersistIdle ==
    /\ ps_pc = "idle"
    /\ ps_record = EmptyDict
    /\ ps_cols = {}
    /\ ps_db = FALSE
    /\ ps_table = <<>>
    /\ ps_before = <<>>
    /\ ps_out = [kind |-> "none", exc |-> ""]

\* the call insert_into_db(row_data)
PersistInsert ==
    /\ ps_pc = "input"
    /\ LET r == insert_into_db(ps_record, ps_cols, ps_table, ps_db)
       IN  /\ ps_out' = [kind |-> r.kind, exc |-> r.exc]
           /\ ps_table' = r.table
    /\ ps_pc' = "insert"
    /\ UNCHANGED <<ps_record, ps_cols, ps_db, ps_before>>
    /\ UNCHANGED NotPersist

\* the call upsert_candidate_details(details)
PersistUpsert ==
    /\ ps_pc = "input"
    /\ LET r == upsert_candidate_details(ps_record, ps_cols, ps_table, ps_db)
       IN  /\ ps_out' = [kind |-> r.kind, exc |-> r.exc]
           /\ ps_table' = r.table
    /\ ps_pc' = "upsert"
    /\ UNCHANGED <<ps_record, ps_cols, ps_db, ps_before>>
    /\ UNCHANGED NotPersist

PersistNext == PersistInsert \/ PersistUpsert

(***************************************************************************)
(* extractors/pdf_utils: text extraction with the OCR fallback             *)
(***************************************************************************)

\* the literal of line 84: the fewest non-blank characters of an accepted text
MIN_TEXT_CHARS == 200

\* ocr_pdf_bytes, lines 58-76: the page texts joined, "" when fitz.open or any
\* page's rendering or recognition raises
ocr_pdf_bytes(fitz_fails, oo) ==
    IF fitz_fails \/ \E i \in 1..Len(oo) : oo[i] = PageRaises THEN ""
    ELSE Join(oo, "\n")

\* lines 82-83: whether fitz.open, a page's get_text or the join raises (the
\* join raises on a page without a text object)
pdf_conversion_raises(fitz_fails, pp) ==
    fitz_fails \/ \E i \in 1..Len(pp) : pp[i] \in {PageRaises, NoneV}

\* a slip: recognition that gave nothing is tried a second time
extract_text_from_pdf_bytes_retrying(fitz_fails, pp, oo) ==
    IF ~pdf_conversion_raises(fitz_fails, pp) /\ NonSpaceLen(Join(pp, "\n")) >= MIN_TEXT_CHARS
    THEN [text |-> Join(pp, "\n"), ocr_calls |-> 0]
    ELSE [text |-> ocr_pdf_bytes(fitz_fails, oo),
          ocr_calls |-> IF ocr_pdf_bytes(fitz_fails, oo) = "" THEN 2 ELSE 1]

\* extract_text_from_pdf_bytes, lines 79-90: [text, ocr_calls]
extract_text_from_pdf_bytes(fitz_fails, pp, oo) ==
    IF pdf_conversion_raises(fitz_fails, pp)
    THEN [text |-> ocr_pdf_bytes(fitz_fails, oo), ocr_calls |-> 1]
    ELSE IF NonSpaceLen(Join(pp, "\n")) >= MIN_TEXT_CHARS
    THEN [text |-> Join(pp, "\n"), ocr_calls |-> 0]
    ELSE [text |-> ocr_pdf_bytes(fitz_fails, oo), ocr_calls |-> 1]

\* a slip: a sparse text is returned as it is, OCR runs only on an exception
extract_text_from_pdf_bytes_accepts_sparse(fitz_fails, pp, oo) ==
    IF pdf_conversion_raises(fitz_fails, pp)
    THEN [text |-> ocr_pdf_bytes(fitz_fails, oo), ocr_calls |-> 1]
    ELSE [text |-> Join(pp, "\n"), ocr_calls |-> 0]

\* extract_text_from_docx_bytes, lines 93-102: the non-empty paragraph texts
\* joined, "" when Document raises
extract_text_from_docx_bytes(dx) ==
    IF dx = PageRaises THEN "" ELSE Join(Without(dx, {""}), "\n")

\* the most pages a document handed to the extractor has
MaxExtractPages == 2

\* what get_text gives for a page: no text object, an empty page, pages of 100
\* and 200 non-blank characters, get_text raising
ExtractPageOutcomes ==
    {NoneV, "", Repeat(TextUnit, 10), Repeat(TextUnit, 20), PageRaises}

\* what recognition gives for a page: nothing, a text, an exception
OcrPageOutcomes == {"", "Asha Rao\n9876543210", PageRaises}

RECURSIVE SeqsUpTo(_, _)
SeqsUpTo(S, n) ==
    IF n = 0 THEN {<<>>}
    ELSE LET T == SeqsUpTo(S, n - 1) IN T \cup {Append(q, o) : q \in T, o \in S}

\* the paragraphs of a DOCX: Document raising, no paragraph, a sparse text, a
\* text of 200 non-blank characters with an empty paragraph in it
DocxOutcomes ==
    {PageRaises, <<>>, <<"Asha Rao", "", "Teller">>, <<Repeat(TextUnit, 20), "">>}

ExtractPaths == {"input_cvs/a.pdf", "input_cvs/b.DOCX", "input_cvs/notes.txt"}

NoText == [kind |-> "none", text |-> "", exc |-> ""]

\* the PDF has its pages; of the other files only the DOCX has paragraphs
ExtractInit ==
    /\ ex_pc = "input"
    /\ ex_opens \in BOOLEAN
    /\ \/ /\ ex_path = "input_cvs/a.pdf"
          /\ ex_fitz_fails \in BOOLEAN
          /\ ex_pages \in SeqsUpTo(ExtractPageOutcomes, MaxExtractPages)
          /\ ex_ocr \in {oo \in SeqsUpTo(OcrPageOutcomes, MaxExtractPages) :
                           Len(oo) = Len(ex_pages)}
          /\ ex_docx = PageRaises
       \/ /\ ex_path \in ExtractPaths \ {"input_cvs/a.pdf"}
          /\ ex_fitz_fails = TRUE
          /\ ex_pages = <<>>
          /\ ex_ocr = <<>>
          /\ ex_docx \in DocxOutcomes
    /\ ex_out = NoText
    /\ ex_ocr_calls = 0

ExtractIdle ==
    /\ ex_pc = "idle"
    /\ ex_path = ""
    /\ ex_opens = FALSE
    /\ ex_fitz_fails = FALSE
    /\ ex_pages = <<>>
    /\ ex_ocr = <<>>
    /\ ex_docx = <<>>
    /\ ex_out = NoText
    /\ ex_ocr_calls = 0

\* what the extractor chosen by the suffix of the path gives for the bytes
extractor_result(path, fitz_fails, pp, oo, dx) ==
    IF EndsWith(Lower(path), ".pdf") THEN extract_text_from_pdf_bytes(fitz_fails, pp, oo)
    ELSE [text |-> extract_text_from_docx_bytes(dx), ocr_calls |-> 0]

\* the call extract_text_from_file(path), import_cvs.py lines 100-107
ExtractCall ==
    /\ ex_pc = "input"
    /\ \E r \in {extractor_result(ex_path, ex_fitz_fails, ex_pages, ex_ocr, ex_docx)} :
          /\ ex_out' = extract_text_from_file(ex_path, [opens |-> ex_opens, text |-> r.text])
          /\ ex_ocr_calls' = IF ex_opens /\ EndsWith(Lower(ex_path), ".pdf")
                             THEN r.ocr_calls ELSE 0
    /\ ex_pc' = "done"
    /\ UNCHANGED <<ex_path, ex_opens, ex_fitz_fails, ex_pages, ex_ocr, ex_docx>>
    /\ UNCHANGED NotExtract

ExtractNext == ExtractCall

(***************************************************************************)
(* extractors/layout.normalize_text applied twice                          *)
(***************************************************************************)

\* the most pieces a text of the harness is put together from
MaxNormTokens == 4

\* the pieces: a word, a hyphenated line break, line breaks, blanks
NormTokens == {"ab", "-\n", "\n", "\r", " ", "\t"}

RECURSIVE NormTextsUpTo(_)
NormTextsUpTo(n) ==
    IF n = 0 THEN {""}
    ELSE LET T == NormTextsUpTo(n - 1) IN T \cup {t \o k : t \in T, k \in NormTokens}

\* a document of n lines "l1" .. "ln", the first of them repeated at the end
\* when repeat is TRUE (a page header)
LinesText(n, repeat) ==
    Join([i \in 1..n |-> "l" \o ToString(i)], "\n") \o (IF repeat THEN "\nl1" ELSE "")

LineCounts == {6, 7, 9, 11}

\* two hyphenated line breaks one letter apart; a carriage return before a "\r\n"
NormSamples == {"a-\nb-\nc", "ab\r\r\nab"}

NormInit ==
    /\ nz_pc = "input"
    /\ nz_text \in NormTextsUpTo(MaxNormTokens)
                     \cup {LinesText(n, r) : n \in LineCounts, r \in BOOLEAN}
                     \cup NormSamples
    /\ nz_once = ""
    /\ nz_twice = ""

NormalizeIdle ==
    /\ nz_pc = "idle"
    /\ nz_text = ""
    /\ nz_once = ""
    /\ nz_twice = ""

\* the call normalize_text(text)
NormCall ==
    /\ nz_pc = "input"
    /\ nz_once' = normalize_text(nz_text)
    /\ nz_pc' = "once"
    /\ UNCHANGED <<nz_text, nz_twice>>
    /\ UNCHANGED NotNormalize

\* the call normalize_text on the result of the first call
NormAgain ==
    /\ nz_pc = "once"
    /\ nz_twice' = normalize_text(nz_once)
    /\ nz_pc' = "twice"
    /\ UNCHANGED <<nz_text, nz_once>>
    /\ UNCHANGED NotNormalize

NormalizeNext == NormCall \/ NormAgain

(***************************************************************************)
(* Age derivation: import_cvs.calculate_age and llm_utils lines 155-165     *)
(***************************************************************************)

\* the mark of a key the record does not have (a reserved spelling, not a value)
AbsentKey == "<absent>"

\* the record with the two fields the age is derived from
AgeRecord(dob, grad) ==
    [k \in {f \in {"cv_dateofbirth", "cv_graduationyear"} :
              (IF f = "cv_dateofbirth" THEN dob ELSE grad) # AbsentKey} |->
        IF k = "cv_dateofbirth" THEN dob ELSE grad]

\* dates of birth: no key, blank, null, the sentinel, dates in the fixed format,
\* a date in another format, dates that are not of the calendar
BirthDates ==
    {AbsentKey, "", NoneV, DEFAULT_NA, "1990-05-17", "2001-2-9", "17/05/1990", "1990-02-30",
     "1990-13-01", "May 1990"}

\* graduation years: no key, blank, null, the sentinel, years, texts int rejects
GraduationYears == {AbsentKey, "", NoneV, DEFAULT_NA, "2012", " 1999 ", "20x2", "2012.0"}

AgeInit ==
    /\ age_pc = "input"
    /\ age_dob \in BirthDates
    /\ age_grad \in GraduationYears
    /\ age_out = ""

AgeIdle ==
    /\ age_pc = "idle"
    /\ age_dob = ""
    /\ age_grad = ""
    /\ age_out = ""

\* the call calculate_age(ai_data), import_cvs.py lines 194-204
AgeCallBatch ==
    /\ age_pc = "input"
    /\ age_out' = calculate_age(AgeRecord(age_dob, age_grad))
    /\ age_pc' = "batch"
    /\ UNCHANGED <<age_dob, age_grad>>
    /\ UNCHANGED NotAge

\* the age fallback of extract_full_cv_fields, llm_utils.py lines 155-165
AgeCallLLM ==
    /\ age_pc = "input"
    /\ age_out' = llm_age(AgeRecord(age_dob, age_grad))
    /\ age_pc' = "llm"
    /\ UNCHANGED <<age_dob, age_grad>>
    /\ UNCHANGED NotAge

AgeNext == AgeCallBatch \/ AgeCallLLM

(***************************************************************************)
(* One file of the batch, collaborator call by collaborator call            *)
(***************************************************************************)

\* the file of the harness and the columns of its table
UnitFile == "a.pdf"

UnitColumns == {"id", "username", "mobile_number", "cv_email", "cv_username"}

\* one page: 200 non-blank characters, 100 of them, get_text raising
UnitPages == {<<Repeat(TextUnit, 20)>>, <<Repeat(TextUnit, 10)>>, <<PageRaises>>}

\* recognition of the page: a resume, nothing, an exception
UnitOcr == {<<AshaText>>, <<"">>, <<PageRaises>>}

UnitResponses ==
    { [api |-> "raise", form |-> "empty", obj |-> EmptyDict, text |-> ""],
      Answer("prose", EmptyDict, "I cannot read this document."),
      Answer("object", O_asha, "") }

\* q with n copies of x appended
RECURSIVE AppendTimes(_, _, _)
AppendTimes(q, x, n) == IF n = 0 THEN q ELSE AppendTimes(Append(q, x), x, n - 1)

UnitInit ==
    /\ u_pc = "start"
    /\ u_fitz_fails \in BOOLEAN
    /\ u_pages \in UnitPages
    /\ u_ocr \in UnitOcr
    /\ u_resp \in UnitResponses
    /\ u_db \in BOOLEAN
    /\ u_db_ins \in BOOLEAN
    /\ u_text = ""
    /\ u_outcome = NoOutcome
    /\ u_calls = <<>>
    /\ u_table = <<>>
    /\ u_processed = 0
    /\ u_errors = 0

UnitIdle ==
    /\ u_pc = "idle"
    /\ u_fitz_fails = FALSE
    /\ u_pages = <<>>
    /\ u_ocr = <<>>
    /\ u_resp = [api |-> "raise", form |-> "empty", obj |-> EmptyDict, text |-> ""]
    /\ u_db = FALSE
    /\ u_db_ins = FALSE
    /\ u_text = ""
    /\ u_outcome = NoOutcome
    /\ u_calls = <<>>
    /\ u_table = <<>>
    /\ u_processed = 0
    /\ u_errors = 0

\* process_file line 210: extract_text_from_file, the conversion and, where
\* extract_text_from_pdf_bytes falls back, the recognition
UnitRead ==
    /\ u_pc = "start"
    /\ \E r \in {extract_text_from_pdf_bytes(u_fitz_fails, u_pages, u_ocr)} :
          /\ u_text' = r.text
          /\ u_calls' = AppendTimes(Append(u_calls, "convert"), "ocr", r.ocr_calls)
    /\ u_pc' = "read"
    /\ UNCHANGED <<u_fitz_fails, u_pages, u_ocr, u_resp, u_db, u_db_ins, u_outcome, u_table,
                   u_processed, u_errors>>
    /\ UNCHANGED NotUnit

\* process_file lines 211-279: a blank text returns {} before the model is
\* asked; otherwise extract_full_cv_fields asks it, by its one call of _generate
UnitProcess ==
    /\ u_pc = "read"
    /\ \E o \in process_file(PathJoin(INPUT_FOLDER, UnitFile),
                             [opens |-> TRUE, text |-> u_text], u_resp, LocationRows,
                             u_db, UnitColumns) :
          u_outcome' = o
    /\ u_calls' = IF Strip(u_text) = "" THEN u_calls ELSE Append(u_calls, "model")
    /\ u_pc' = "processed"
    /\ UNCHANGED <<u_fitz_fails, u_pages, u_ocr, u_resp, u_db, u_db_ins, u_text, u_table,
                   u_processed, u_errors>>
    /\ UNCHANGED NotUnit

\* main lines 321-339: insert_into_db is called on a record that is not empty;
\* the handler logs and moves the file
UnitFinish ==
    /\ u_pc = "processed"
    /\ \E r \in {main_iteration(UnitFile, u_outcome, UnitColumns, u_table, u_db_ins, NoFaults)} :
          /\ u_table' = r.table
          /\ u_processed' = r.processed
          /\ u_errors' = r.errors
    /\ u_calls' = IF u_outcome.kind = "ok" /\ DOMAIN u_outcome.val # {}
                  THEN Append(u_calls, "write") ELSE u_calls
    /\ u_pc' = "done"
    /\ UNCHANGED <<u_fitz_fails, u_pages, u_ocr, u_resp, u_db, u_db_ins, u_text, u_outcome>>
    /\ UNCHANGED NotUnit

UnitNext == UnitRead \/ UnitProcess \/ UnitFinish

(***************************************************************************)
(* extract_emails as a pure function                                        *)
(***************************************************************************)

MaxEmailTokens == 3

\* the pieces the texts are made of: addresses, one in another case, the
\* separators the code strips, and the characters the pattern hinges on
EmailTokens == {"a@b.co", "A@B.CO", "c-d@e.in", " ", ",", "x", "@", "."}

RECURSIVE EmailTextsUpTo(_)
EmailTextsUpTo(n) ==
    IF n = 0 THEN {""}
    ELSE EmailTextsUpTo(n - 1)
         \cup {t \o k : t \in {u \in EmailTextsUpTo(n - 1) : TRUE}, k \in EmailTokens}

EmailsInit ==
    /\ em_pc = "start"
    /\ em_text \in EmailTextsUpTo(MaxEmailTokens) \cup {normalize_text(AshaText), normalize_text(KiranText)}
    /\ em_out = <<>>

EmailsIdle ==
    /\ em_pc = "idle"
    /\ em_text = ""
    /\ em_out = <<>>

\* one call of extract_emails, app.py line 24
EmailsCall ==
    /\ em_pc = "start"
    /\ em_out' = extract_emails(em_text)
    /\ em_pc' = "done"
    /\ UNCHANGED em_text
    /\ UNCHANGED NotEmails

EmailsNext == EmailsCall

(***************************************************************************)
(* Specifications                                                          *)
(***************************************************************************)

InitMobile ==
    MobileInit /\ GenderIdle /\ ScanIdle /\ LocIdle /\ ProcIdle /\ BatchIdle /\ ReqIdle /\ PersistIdle
       /\ ExtractIdle /\ NormalizeIdle /\ AgeIdle /\ UnitIdle /\ EmailsIdle

SpecMobile == InitMobile /\ [][MobileNext]_vars

InitGender ==
    GenderInit /\ MobileIdle /\ ScanIdle /\ LocIdle /\ ProcIdle /\ BatchIdle /\ ReqIdle /\ PersistIdle
       /\ ExtractIdle /\ NormalizeIdle /\ AgeIdle /\ UnitIdle /\ EmailsIdle

SpecGender == InitGender /\ [][GenderNext]_vars

InitScan ==
    ScanInit /\ MobileIdle /\ GenderIdle /\ LocIdle /\ ProcIdle /\ BatchIdle /\ ReqIdle /\ PersistIdle
       /\ ExtractIdle /\ NormalizeIdle /\ AgeIdle /\ UnitIdle /\ EmailsIdle

SpecScan == InitScan /\ [][ScanNext]_vars

InitLocation ==
    LocInit /\ MobileIdle /\ GenderIdle /\ ScanIdle /\ ProcIdle /\ BatchIdle /\ ReqIdle /\ PersistIdle
       /\ ExtractIdle /\ NormalizeIdle /\ AgeIdle /\ UnitIdle /\ EmailsIdle

SpecLocation == InitLocation /\ [][LocNext]_vars

InitProcess ==
    ProcInit /\ MobileIdle /\ GenderIdle /\ ScanIdle /\ LocIdle /\ BatchIdle /\ ReqIdle /\ PersistIdle
       /\ ExtractIdle /\ NormalizeIdle /\ AgeIdle /\ UnitIdle /\ EmailsIdle

SpecProcess == InitProcess /\ [][ProcNext]_vars

InitBatch ==
    BatchInit /\ MobileIdle /\ GenderIdle /\ ScanIdle /\ LocIdle /\ ProcIdle /\ ReqIdle /\ PersistIdle
       /\ ExtractIdle /\ NormalizeIdle /\ AgeIdle /\ UnitIdle /\ EmailsIdle

SpecBatch == InitBatch /\ [][BatchNext]_vars

\* the batch run on a file system that can fail
InitFaultyBatch ==
    FaultyBatchInit /\ MobileIdle /\ GenderIdle /\ ScanIdle /\ LocIdle /\ ProcIdle /\ ReqIdle /\ PersistIdle
       /\ ExtractIdle /\ NormalizeIdle /\ AgeIdle /\ UnitIdle /\ EmailsIdle

SpecFaultyBatch == InitFaultyBatch /\ [][BatchNext]_vars

InitRequest ==
    ReqInit /\ MobileIdle /\ GenderIdle /\ ScanIdle /\ LocIdle /\ ProcIdle /\ BatchIdle /\ PersistIdle
       /\ ExtractIdle /\ NormalizeIdle /\ AgeIdle /\ UnitIdle /\ EmailsIdle

SpecRequest == InitRequest /\ [][ReqNext]_vars

InitPersist ==
    PersistInit /\ MobileIdle /\ GenderIdle /\ ScanIdle /\ LocIdle /\ ProcIdle /\ BatchIdle /\ ReqIdle
       /\ ExtractIdle /\ NormalizeIdle /\ AgeIdle /\ UnitIdle /\ EmailsIdle

SpecPersist == InitPersist /\ [][PersistNext]_vars

InitExtract ==
    ExtractInit /\ MobileIdle /\ GenderIdle /\ ScanIdle /\ LocIdle /\ ProcIdle /\ BatchIdle /\
        ReqIdle /\ PersistIdle /\ NormalizeIdle /\ AgeIdle /\ UnitIdle /\ EmailsIdle

SpecExtract == InitExtract /\ [][ExtractNext]_vars

InitNormalize ==
    NormInit /\ MobileIdle /\ GenderIdle /\ ScanIdle /\ LocIdle /\ ProcIdle /\ BatchIdle /\
        ReqIdle /\ ExtractIdle /\ PersistIdle /\ AgeIdle /\ UnitIdle /\ EmailsIdle

SpecNormalize == InitNormalize /\ [][NormalizeNext]_vars

InitAge ==
    AgeInit /\ MobileIdle /\ GenderIdle /\ ScanIdle /\ LocIdle /\ ProcIdle /\ BatchIdle /\
        ReqIdle /\ ExtractIdle /\ NormalizeIdle /\ PersistIdle /\ UnitIdle /\ EmailsIdle

SpecAge == InitAge /\ [][AgeNext]_vars

InitUnit ==
    UnitInit /\ MobileIdle /\ GenderIdle /\ ScanIdle /\ LocIdle /\ ProcIdle /\ BatchIdle /\
        ReqIdle /\ ExtractIdle /\ NormalizeIdle /\ AgeIdle /\ PersistIdle /\ EmailsIdle

SpecUnit == InitUnit /\ [][UnitNext]_vars

InitEmails ==
    EmailsInit /\ MobileIdle /\ GenderIdle /\ ScanIdle /\ LocIdle /\ ProcIdle /\ BatchIdle /\
        ReqIdle /\ ExtractIdle /\ NormalizeIdle /\ AgeIdle /\ UnitIdle /\ PersistIdle

SpecEmails == InitEmails /\ [][EmailsNext]_vars

\* the two reconciliation paths side by side
InitReconcile == InitProcess \/ InitRequest

ReconcileNext == ProcNext \/ ReqNext

SpecReconcile == InitReconcile /\ [][ReconcileNext]_vars

\* every place a record is handed to the database
InitStore == InitPersist \/ InitRequest \/ InitBatch

StoreNext == PersistNext \/ ReqNext \/ BatchNext

SpecStore == InitStore /\ [][StoreNext]_vars

(***************************************************************************)
(* C1                                                                      *)
(***************************************************************************)

\* the lines this run has appended to the log
RunLines == SubSeq(log, log_start + 1, Len(log))

\* the iterations whose try block raised while process_file or insert_into_db ran
FailedAt(i) == attempts[i].raised /\ attempts[i].stage \in {"process", "insert"}

\* C1: in the batch run, whenever processing or inserting a discovered file
\* raises, the exception does not leave the loop (the run has not crashed), the
\* file is in the quarantine folder and no longer in the input folder, the line
\* the run appended for that file is an ERROR line carrying the exception's text
\* and no other line names the file, and the loop goes on: it is at the next
\* file, and once the run is done every discovered file has been attempted in
\* order.
C1_PerFileIsolation ==
    /\ main_pc \in {"loop", "done"} =>
          /\ Len(attempts) = idx - 1
          /\ \A i \in 1..Len(attempts) : attempts[i].file = files[i]
    /\ main_pc = "done" => Len(attempts) = Len(files)
    /\ \A i \in 1..Len(attempts) :
          FailedAt(i) =>
             /\ main_pc \in {"loop", "done"}
             /\ ~attempts[i].escaped
             /\ attempts[i].file \in error_folder
             /\ attempts[i].file \notin input_folder
             /\ {j \in 1..Len(RunLines) : RunLines[j].name = attempts[i].file} = {i}
             /\ RunLines[i].status = "ERROR | " \o attempts[i].exc

\* a finished run of two files in which inserting the first raised and the second
\* was then processed and inserted
C1_Witness ==
    /\ main_pc = "done"
    /\ Len(attempts) = 2
    /\ attempts[1].raised /\ attempts[1].stage = "insert"
    /\ ~attempts[2].raised
    /\ Len(table) = 1
    /\ RunLines[2].status = "PROCESSED"

(***************************************************************************)
(* C2                                                                      *)
(***************************************************************************)

IsErrorStatus(s) == s = "ERROR" \/ FirstN(s, 8) = "ERROR | "

\* the run's lines are one status line per discovered file, in order, then a
\* summary line whose counts are the numbers of PROCESSED and ERROR lines and
\* whose total is their sum and the number of discovered files
EndsWithSummary ==
    LET n         == Len(files)
        processed == Cardinality({i \in 1..n : RunLines[i].status = "PROCESSED"})
        errors    == Cardinality({i \in 1..n : IsErrorStatus(RunLines[i].status)})
    IN  /\ Len(RunLines) = n + 1
        /\ \A i \in 1..n :
              /\ RunLines[i].name = files[i]
              /\ RunLines[i].status = "PROCESSED" \/ IsErrorStatus(RunLines[i].status)
        /\ processed + errors = n
        /\ RunLines[n + 1].name = "SUMMARY"
        /\ RunLines[n + 1].status =
              "Total: " \o ToString(n) \o " | Processed: " \o ToString(processed)
                 \o " | Errors: " \o ToString(errors)

\* C2 as stated: every batch run, however it ends, has appended the status lines
\* and the summary line.
C2_Original == main_pc \in {"done", "aborted", "crashed"} => EndsWithSummary

\* C2, amended: a batch run that read a non-empty column list and came to the
\* end of its loop has appended exactly one status line per discovered file and
\* then the summary line with matching counts; a run that read no columns, or
\* whose column query raised, has appended nothing.  What the log held before
\* the run is still there.
C2_SummaryAfterLoop ==
    /\ main_pc = "done" => EndsWithSummary
    /\ (main_pc \in {"aborted", "crashed"} /\ attempts = <<>>) => RunLines = <<>>
    /\ main_pc = "aborted" => existing_cols = {} /\ attempts = <<>>
    /\ SubSeq(log, 1, log_start) = PriorLog

\* a finished run of two files, one inserted and one quarantined
C2_Witness ==
    /\ main_pc = "done"
    /\ Len(files) = 2
    /\ total_processed = 1
    /\ total_errors = 1
    /\ RunLines[3].status = "Total: 2 | Processed: 1 | Errors: 1"

(***************************************************************************)
(* C3                                                                      *)
(***************************************************************************)

OVERRIDE_FIELDS == {"cv_email", "cv_mobile_number", "cv_pincode", "cv_summary"}

\* the dictionary the model's answer denotes, before any post-processing
ModelObject(resp) ==
    IF resp.api = "ok" /\ resp.form \in {"object", "fenced", "embedded"} THEN resp.obj
    ELSE EmptyDict

\* a model value as the batch path carries it: a list as its non-empty items
\* joined by ", " (the sentinel when there is none), anything else as it is
Carried(v) ==
    IF IsList(v)
    THEN LET items == Without(ListItems(v), {NoneV, ""})
         IN  IF items = <<>> THEN DEFAULT_NA ELSE Join(items, ", ")
    ELSE v

\* process_file returned a record
ProcReturned == pf_pc = "done" /\ pf_out.kind = "ok" /\ DOMAIN pf_out.val # {}

\* upload_resume built a record (it answered, or the upsert raised afterwards)
ReqBuilt == req_pc = "done" /\ req_out.kind \in {"ok", "raise"}

ReqModel == IF req_info.kind = "dict" THEN req_info.val ELSE EmptyDict

\* on the batch path each override field holds the regex value when there is one
\* and the model's value otherwise
BatchOverrides ==
    ProcReturned =>
       \A k \in OVERRIDE_FIELDS \cap pf_cols :
          LET regex == basic_regex_overrides(pf_doc.text)[k]
              model == ModelObject(pf_resp)
          IN  pf_out.val[k] =
                 IF regex # DEFAULT_NA THEN regex
                 ELSE IF k \in DOMAIN model THEN Carried(model[k]) ELSE DEFAULT_NA

\* C3 as stated: the override rule holds wherever the record is reconciled, so on
\* the request path too a phone number found locally replaces the model's.
C3_Original ==
    /\ BatchOverrides
    /\ (ReqBuilt /\ extract_phones(normalize_text(req_text)) # <<>>) =>
          /\ "mobile_number" \in DOMAIN req_out.details
          /\ req_out.details["mobile_number"] = extract_phones(normalize_text(req_text))[1]

\* C3, amended: on the batch path, for each of the four override fields, a regex
\* value other than the sentinel replaces the model's value and the sentinel
\* leaves the model's value as it is.  On the request path there is no override:
\* every mapped field the model gave a value other than None and "" holds that
\* value, and the phone number found locally is used only when the model gave
\* no mobile number.
C3_ReconciliationPrecedence ==
    /\ BatchOverrides
    /\ ReqBuilt =>
          /\ \A m \in REQUEST_MAPPING :
                GetOrNone(ReqModel, m[1]) \notin {NoneV, ""} =>
                   /\ m[2] \in DOMAIN req_out.details
                   /\ req_out.details[m[2]] = ReqModel[m[1]]
          /\ GetOrNone(ReqModel, "cv_mobile_number") \in {NoneV, ""} =>
                LET phones == extract_phones(normalize_text(req_text))
                IN  IF phones # <<>>
                    THEN /\ "mobile_number" \in DOMAIN req_out.details
                         /\ req_out.details["mobile_number"] = phones[1]
                    ELSE "mobile_number" \notin DOMAIN req_out.details

\* the batch path, model and regex disagreeing on the e-mail address and the
\* phone number: the record holds the regex values
C3_Witness ==
    /\ ProcReturned
    /\ {"cv_email", "cv_mobile_number"} \subseteq pf_cols
    /\ GetOrNone(ModelObject(pf_resp), "cv_email") = "asha@corp.com"
    /\ pf_out.val["cv_email"] = "r.asha@x.com"
    /\ pf_out.val["cv_mobile_number"] = "+919876543210"

(***************************************************************************)
(* C4                                                                      *)
(***************************************************************************)

\* a name the model gave: not None, not blank, not the sentinel
UsableName(v) == v # NoneV /\ ~IsList(v) /\ Strip(v) # "" /\ v # DEFAULT_NA

\* C4: whenever the model output holds a non-empty cv_username, the username of
\* the reconciled record is that value, on the batch path and on the request
\* path alike.
C4_ModelUsernameWins ==
    /\ (ProcReturned /\ "username" \in pf_cols
          /\ UsableName(GetOrNone(ModelObject(pf_resp), "cv_username"))) =>
          pf_out.val["username"] = ModelObject(pf_resp)["cv_username"]
    /\ (ReqBuilt /\ UsableName(GetOrNone(ReqModel, "cv_username"))) =>
          /\ "username" \in DOMAIN req_out.details
          /\ req_out.details["username"] = ReqModel["cv_username"]

(***************************************************************************)
(* C5                                                                      *)
(***************************************************************************)

\* C5: when the model collaborator fails or answers with nothing or with
\* something that is not a JSON object, extraction raises nothing and the file
\* or request is still reconciled from the local tiers: process_file returns a
\* record (with the regex e-mail address when the text has one), and
\* upload_resume raises nothing on account of the model.
C5_ModelFailureDegrades ==
    /\ (pf_pc = "done" /\ pf_resp \in ModelFailures /\ pf_doc.opens /\ pf_db
          /\ Strip(extract_text_from_file(pf_path, pf_doc).text) # ""
          /\ pf_cols \cap ALL_COLUMNS # {}) =>
          /\ pf_out.kind = "ok"
          /\ DOMAIN pf_out.val # {}
          /\ "cv_email" \in pf_cols =>
                pf_out.val["cv_email"] = basic_regex_overrides(pf_doc.text)["cv_email"]
    /\ (req_pc = "done" /\ req_info.kind \in {"raise", "none"}
          /\ req_ctype \in {PDF_TYPE} \cup DOCX_TYPES /\ ~req_upload) =>
          req_out.kind = "ok"

(***************************************************************************)
(* C6                                                                      *)
(***************************************************************************)

\* C6: whenever the record to be stored has no field in common with the
\* columns of the destination table, the persistence step ends in an error the
\* caller or the batch log sees, and nothing is written: for the two helpers
\* called on a record, for a request that reaches the upsert, and for a batch
\* run against a table that has none of the known columns.
C6_NoSilentEmptyWrite ==
    /\ (ps_pc \in {"insert", "upsert"} /\ ps_db /\ (DOMAIN ps_record) \cap ps_cols = {}) =>
          ps_out.kind = "raise" /\ ps_table = ps_before
    /\ (req_pc = "done" /\ req_out.kind # "http400" /\ req_upload /\ req_db
          /\ GetOrNone(req_out.details, "mobile_number") \notin {NoneV, ""}
          /\ (DOMAIN req_out.details) \cap req_cols = {}) =>
          req_out.kind = "raise"
    /\ (main_pc \in {"loop", "done"} /\ existing_cols \cap ALL_COLUMNS = {}) =>
          /\ table = <<>>
          /\ \A i \in 1..Len(attempts) : IsErrorStatus(RunLines[i].status)

(***************************************************************************)
(* C7                                                                      *)
(***************************************************************************)

\* the resolution rule as the claim states it
ClaimedResolution(m, f) ==
    IF m = 0 /\ f = 0 THEN DEFAULT_NA
    ELSE IF m > f THEN "Male"
    ELSE IF f > m THEN "Female"
    ELSE "Male"

\* C7 as stated: every gender scorer resolves zero totals to Unknown, the strictly
\* greater total to its side, and equal nonzero totals to Male.
C7_Original ==
    gender_pc \in {"batch", "llm"} => gender_out = ClaimedResolution(male_score, female_score)

\* C7 amended: the batch scorer (import_cvs.detect_gender) resolves as stated; the
\* model-side scorer (llm_utils.detect_gender) gives the strictly greater total its
\* side and resolves every tie, zero or not, to Unknown.
C7_GenderResolution ==
    /\ gender_pc = "batch" => gender_out = ClaimedResolution(male_score, female_score)
    /\ gender_pc = "llm" =>
          gender_out = (IF male_score > female_score THEN "Male"
                        ELSE IF female_score > male_score THEN "Female"
                        ELSE DEFAULT_NA)

\* an equal nonzero total in the batch scorer, resolved to Male
C7_Witness ==
    /\ gender_pc = "batch"
    /\ male_score = female_score
    /\ male_score > 0
    /\ gender_out = "Male"

(***************************************************************************)
(* C8                                                                      *)
(***************************************************************************)

\* the rows a step would find for the query of the harness, {} when it is skipped
FoundCityState ==
    IF q_city # DEFAULT_NA /\ q_state # DEFAULT_NA
    THEN {r \in locations : r.city # NoneV /\ r.state # NoneV
                            /\ Lower(r.city) = Lower(Strip(q_city))
                            /\ Lower(r.state) = Lower(Strip(q_state))}
    ELSE {}

FoundAreaCity ==
    IF q_area # DEFAULT_NA /\ q_city # DEFAULT_NA
    THEN {r \in locations : r.area # NoneV /\ r.city # NoneV
                            /\ Lower(r.area) = Lower(Strip(q_area))
                            /\ Lower(r.city) = Lower(Strip(q_city))}
    ELSE {}

FoundFreeText ==
    IF q_free # DEFAULT_NA
    THEN {r \in locations : \E col \in {r.area, r.city, r.state} :
                                col # NoneV /\ Contains(Lower(q_free), Lower(col))}
    ELSE {}

IdsOf(rows) == {ToString(r.id) : r \in rows}

InSeq(x, q) == \E i \in 1..Len(q) : q[i] = x

\* C8: find_location_id returns on the first hit of the chain city/state, then
\* area/city, then free-text containment: a city/state row wins over a different
\* area/city row; a later step is consulted only if every earlier step was skipped
\* or found nothing; with no hit at all the sentinel is returned.
C8_LocationChain ==
    loc_pc = "done" =>
        /\ FoundCityState # {} => loc_out \in IdsOf(FoundCityState) /\ loc_consulted = <<1>>
        /\ InSeq(2, loc_consulted) => FoundCityState = {}
        /\ (FoundCityState = {} /\ FoundAreaCity # {}) => loc_out \in IdsOf(FoundAreaCity)
        /\ InSeq(3, loc_consulted) => FoundCityState = {} /\ FoundAreaCity = {}
        /\ (FoundCityState = {} /\ FoundAreaCity = {} /\ FoundFreeText # {}) =>
              loc_out \in IdsOf(FoundFreeText)
        /\ (FoundCityState = {} /\ FoundAreaCity = {} /\ FoundFreeText = {}) =>
              loc_out = DEFAULT_NA

\* both a city/state row and a different area/city row match, and the city/state
\* row's identifier was returned
C8_Witness ==
    /\ loc_pc = "done"
    /\ FoundCityState # {}
    /\ FoundAreaCity \ FoundCityState # {}
    /\ loc_out \in IdsOf(FoundCityState)
    /\ loc_out \notin IdsOf(FoundAreaCity \ FoundCityState)

(***************************************************************************)
(* C9                                                                      *)
(***************************************************************************)

RECURSIVE AllDigits(_)
AllDigits(s) == s = "" \/ (IsDigit(CharAt(s, 1)) /\ AllDigits(SubSeq(s, 2, Len(s))))

RECURSIVE CountDigits(_)
CountDigits(s) ==
    IF s = "" THEN 0
    ELSE (IF IsDigit(CharAt(s, 1)) THEN 1 ELSE 0) + CountDigits(SubSeq(s, 2, Len(s)))

\* the k-th digit character of s counted from the right (k = 1 is the last digit)
RECURSIVE DigitFromRight(_, _)
DigitFromRight(s, k) ==
    LET last == CharAt(s, Len(s))
        rest == SubSeq(s, 1, Len(s) - 1)
    IN  IF IsDigit(last)
        THEN IF k = 1 THEN last ELSE DigitFromRight(rest, k - 1)
        ELSE DigitFromRight(rest, k)

\* C9: clean_mobile_number returns exactly the last 10 digit characters of its
\* input when the input holds at least 10 digits, and the sentinel when it holds
\* fewer (or is the sentinel); so the result is the sentinel or 10 digits.
C9_CleanMobileLastTen ==
    mobile_pc = "done" =>
        /\ CountDigits(raw_number) >= 10 =>
              /\ Len(mobile_out) = 10
              /\ \A k \in 1..10 :
                    CharAt(mobile_out, 11 - k) = DigitFromRight(raw_number, k)
        /\ CountDigits(raw_number) < 10 => mobile_out = DEFAULT_NA
        /\ mobile_out = DEFAULT_NA \/ (Len(mobile_out) = 10 /\ AllDigits(mobile_out))

\* an input with more than 10 digits, so that which 10 are kept matters
C9_Witness ==
    /\ mobile_pc = "done"
    /\ CountDigits(raw_number) > 10
    /\ CharAt(DigitsOnly(raw_number), 1) # CharAt(mobile_out, 1)
    /\ mobile_out # DEFAULT_NA

(***************************************************************************)
(* C10                                                                     *)
(***************************************************************************)

\* the non-blank characters of the first k pages, none of which raises
RECURSIVE PrefixChars(_, _)
PrefixChars(pp, k) ==
    IF k = 0 THEN 0
    ELSE PrefixChars(pp, k - 1) + NonSpaceLen(IF pp[k] = NoneV THEN "" ELSE pp[k])

\* the first k pages can be read (the document opens, none of them raises) and
\* hold at least min_chars non-blank characters together
PrefixReaches(k) ==
    /\ ~open_fails
    /\ \A j \in 1..k : pages[j] # PageRaises
    /\ PrefixChars(pages, k) >= min_chars

\* C10: is_scanned_pdf_bytes returns false exactly when the non-blank characters of
\* some readable prefix of the pages reach the threshold, and then it has read the
\* pages up to the first such prefix and no later one; otherwise (the pages run out
\* below the threshold, or the open or a page read raises) it returns true; no
\* exception leaves it.
C10_ScanDetector ==
    scan_pc = "done" =>
        /\ ~scan_raised
        /\ scan_out = FALSE <=> \E k \in 1..Len(pages) : PrefixReaches(k)
        /\ scan_out = FALSE =>
              /\ PrefixReaches(scan_read)
              /\ \A k \in 1..(scan_read - 1) : ~PrefixReaches(k)
        /\ (open_fails \/ \E j \in 1..scan_read : pages[j] = PageRaises) => scan_out = TRUE
        /\ (~open_fails /\ scan_read = Len(pages)
              /\ PrefixChars(pages, Len(pages)) < min_chars) => scan_out = TRUE

\* the threshold is met on the second page of three, and the third is not read
C10_Witness ==
    /\ scan_pc = "done"
    /\ Len(pages) = 3
    /\ min_chars = MIN_CHARS_DEFAULT
    /\ scan_out = FALSE
    /\ scan_read = 2
    /\ pages[3] = PageRaises

(***************************************************************************)
(* C11                                                                     *)
(***************************************************************************)

\* the file is a document main picks up
IsDocument(path) == EndsWith(Lower(path), ".pdf") \/ EndsWith(Lower(path), ".docx")

\* direct conversion of the file fails: the converter of its type raises
ConversionFails ==
    IF EndsWith(Lower(ex_path), ".pdf")
    THEN ex_fitz_fails \/ \E i \in 1..Len(ex_pages) : ex_pages[i] \in {PageRaises, NoneV}
    ELSE ex_docx = PageRaises

\* what direct conversion gives when it does not fail
ConvertedText ==
    IF EndsWith(Lower(ex_path), ".pdf") THEN Join(ex_pages, "\n")
    ELSE Join(SelectSeq(ex_docx, LAMBDA t : t # ""), "\n")

\* what optical recognition gives for the file, "" when it fails
RecognisedText ==
    IF ex_fitz_fails \/ \E i \in 1..Len(ex_ocr) : ex_ocr[i] = PageRaises THEN ""
    ELSE Join(ex_ocr, "\n")

\* the fallback is due: conversion failed or gave fewer than 200 non-blank characters
FallbackDue == ConversionFails \/ NonSpaceLen(ConvertedText) < 200

\* C11: for every document, no exception leaves text extraction, and when direct
\* conversion fails or gives fewer than 200 non-blank characters, optical
\* recognition is invoked and its output (empty when it fails too) is the text
\* returned.
C11_OcrFallback ==
    (ex_pc = "done" /\ IsDocument(ex_path)) =>
        /\ ex_out.kind = "ok"
        /\ FallbackDue => (ex_ocr_calls = 1 /\ ex_out.text = RecognisedText)

\* the part of C11 that holds: a PDF that could be opened for reading
C11_PdfOcrFallback ==
    (ex_pc = "done" /\ EndsWith(Lower(ex_path), ".pdf") /\ ex_opens) =>
        /\ ex_out.kind = "ok"
        /\ FallbackDue => (ex_ocr_calls = 1 /\ ex_out.text = RecognisedText)
        /\ ~FallbackDue => (ex_ocr_calls = 0 /\ ex_out.text = ConvertedText)

\* a PDF whose two pages hold 100 non-blank characters and are recognised
C11_PdfWitness ==
    /\ ex_pc = "done"
    /\ ex_path = "input_cvs/a.pdf"
    /\ ex_opens
    /\ ex_pages = <<Repeat(TextUnit, 10), "">>
    /\ ex_out.text = "Asha Rao\n9876543210\nAsha Rao\n9876543210"

\* a sparse DOCX whose text is returned as converted
C11_DocxSparse ==
    /\ ex_pc = "done"
    /\ ex_path = "input_cvs/b.DOCX"
    /\ ex_opens
    /\ ex_out.text = "Asha Rao\nTeller"
    /\ ex_ocr_calls = 0

(***************************************************************************)
(* C12                                                                     *)
(***************************************************************************)

\* C12: normalize_text is idempotent: normalizing the result of normalize_text
\* gives that result again, for every text, those with more than 6 non-empty
\* lines included.
C12_NormalizeIdempotent ==
    nz_pc = "twice" => nz_twice = nz_once

\* the same for the texts of at most 6 non-empty lines without a hyphenated
\* line break and without a carriage return: these the trimming and the joining
\* leave alone
C12_IdempotentOnPlainText ==
    (/\ nz_pc = "twice"
     /\ Len(Without(StripEach(SplitLines(nz_text)), {""})) <= 6
     /\ ~Contains(nz_text, "-\n")
     /\ ~Contains(nz_text, "\r")) => nz_twice = nz_once

\* eleven lines: the first pass drops four lines, the second four more
C12_TrimmedTwice ==
    /\ nz_pc = "twice"
    /\ nz_text = LinesText(11, FALSE)
    /\ nz_once = "l3\nl4\nl5\nl6\nl7\nl8\nl9"
    /\ nz_twice = "l5\nl6\nl7"

\* two hyphenated line breaks one letter apart: the second is joined only by the
\* second pass
C12_JoinedTwice ==
    /\ nz_pc = "twice"
    /\ nz_text = "a-\nb-\nc"
    /\ nz_once = "ab-\nc"
    /\ nz_twice = "abc"

(***************************************************************************)
(* C13                                                                     *)
(***************************************************************************)

\* process_file returned for a file whose text is not blank
ProcReturnedForText ==
    /\ pf_pc = "done"
    /\ pf_out.kind = "ok"
    /\ pf_doc.opens
    /\ IsDocument(pf_path)
    /\ Strip(pf_doc.text) # ""

\* the keys process_file and extract_full_cv_fields assign on their own
ASSIGNED_KEYS ==
    {"cv_finscore", "cv_gender", "cv_age", "cv_originalfilename", "cv_location_code",
     "cv_parsingtimestamp", "cv_source", "cv_parsingstatus", "user_id", "username",
     "mobile_number", "email", "gender", "cv_cvscore",
     "cv_location_area", "cv_location_city", "cv_location_state", "cv_current_location",
     "cv_pastcompanies", "cv_pastdesignations", "cv_pastduration",
     "cv_email", "cv_mobile_number", "cv_pincode", "cv_summary"}

\* C13: the record process_file returns for a file with non-empty text has as
\* its keys exactly the whitelisted names that are columns of the table: no key
\* outside ALL_COLUMNS or outside the columns appears, whatever keys the model's
\* answer had, and a key nothing produced a value for holds the sentinel.
C13_WhitelistedKeys ==
    ProcReturnedForText =>
        /\ DOMAIN pf_out.val = ALL_COLUMNS \cap pf_cols
        /\ \A k \in DOMAIN pf_out.val :
              (k \notin DOMAIN ModelObject(pf_resp) /\ k \notin ASSIGNED_KEYS)
                  => pf_out.val[k] = DEFAULT_NA

\* the model's answer has a key "notes" that is a column of the table but not
\* whitelisted; it is dropped, and a whitelisted column nothing produced holds
\* the sentinel
C13_Witness ==
    /\ ProcReturnedForText
    /\ "notes" \in DOMAIN ModelObject(pf_resp)
    /\ "notes" \in pf_cols
    /\ "notes" \notin DOMAIN pf_out.val
    /\ pf_out.val["cv_jobrole"] = DEFAULT_NA
    /\ pf_out.val["cv_username"] = "Asha Rao"

(***************************************************************************)
(* C14                                                                     *)
(***************************************************************************)

\* a field is present: the record has it, and not as null, blank or the sentinel
FieldPresent(v) == v \notin {AbsentKey, NoneV, "", DEFAULT_NA}

\* the age the rule gives: from the date of birth when there is one, else from
\* the graduation year when there is one; a field that does not parse gives the
\* sentinel
AgeByRule(dob, grad) ==
    IF FieldPresent(dob)
    THEN (IF StrpYMD(dob).ok THEN ToString(CURRENT_YEAR - StrpYMD(dob).year) ELSE DEFAULT_NA)
    ELSE IF FieldPresent(grad)
    THEN (IF PyInt(grad).ok THEN ToString(CURRENT_YEAR - PyInt(grad).val + 22) ELSE DEFAULT_NA)
    ELSE DEFAULT_NA

\* C14: age derivation never raises and follows the fixed preference: the age is
\* the current year minus the year of a date of birth that is present and parses,
\* else the current year minus the graduation year plus 22 when a graduation year is
\* available, else "not available"; a parse failure gives "not available".  Both
\* derivations, calculate_age and the fallback of llm_utils, follow it.
C14_AgeDerivation ==
    age_pc \in {"batch", "llm"} => age_out = AgeByRule(age_dob, age_grad)

\* the rule with a field counting as present the way calculate_age has it: every
\* value but the sentinel, null and blank included
C14_BatchBySentinel ==
    age_pc = "batch" =>
        age_out = IF age_dob \notin {AbsentKey, DEFAULT_NA}
                  THEN (IF StrpYMD(age_dob).ok
                        THEN ToString(CURRENT_YEAR - StrpYMD(age_dob).year) ELSE DEFAULT_NA)
                  ELSE IF age_grad \notin {AbsentKey, DEFAULT_NA}
                  THEN (IF PyInt(age_grad).ok
                        THEN ToString(CURRENT_YEAR - PyInt(age_grad).val + 22)
                        ELSE DEFAULT_NA)
                  ELSE DEFAULT_NA

\* the rule with a field counting as present the way llm_utils has it: every
\* truthy value, the sentinel included
C14_LlmByTruthiness ==
    age_pc = "llm" =>
        age_out = IF age_dob \notin {AbsentKey, NoneV, ""}
                  THEN (IF StrpYMD(age_dob).ok
                        THEN ToString(CURRENT_YEAR - StrpYMD(age_dob).year) ELSE DEFAULT_NA)
                  ELSE IF age_grad \notin {AbsentKey, NoneV, ""}
                  THEN (IF PyInt(age_grad).ok
                        THEN ToString(CURRENT_YEAR - PyInt(age_grad).val + 22)
                        ELSE DEFAULT_NA)
                  ELSE DEFAULT_NA

\* a blank date of birth and the graduation year 2012: calculate_age gives the
\* sentinel
C14_BlankBirthDate ==
    /\ age_pc = "batch"
    /\ age_dob = ""
    /\ age_grad = "2012"
    /\ age_out = DEFAULT_NA

\* the same record through the fallback of llm_utils: the age from the graduation year
C14_BlankBirthDateLlm ==
    /\ age_pc = "llm"
    /\ age_dob = ""
    /\ age_grad = "2012"
    /\ age_out = ToString(CURRENT_YEAR - 2012 + 22)

(***************************************************************************)
(* C15                                                                     *)
(***************************************************************************)

\* how many times a collaborator was called for the file
CallCount(c) == Cardinality({i \in 1..Len(u_calls) : u_calls[i] = c})

\* the collaborators failed: recognition gave nothing or raised, the model call
\* raised or its answer was no object, the database did not answer
RecognitionFailed == CallCount("ocr") >= 1 /\ (u_fitz_fails \/ u_ocr[1] \in {"", PageRaises})

ModelFailed == CallCount("model") >= 1 /\ u_resp \in ModelFailures

WriteFailed == CallCount("write") >= 1 /\ ~u_db_ins

C15_NoLaterCall ==
    [][\A i \in (Len(u_calls) + 1)..Len(u_calls') :
          \A j \in 1..Len(u_calls) : u_calls'[i] # u_calls[j]]_vars

C15_AllOnce ==
    /\ u_pc = "done"
    /\ u_calls = <<"convert", "ocr", "model", "write">>
    /\ u_processed = 1

(***************************************************************************)
(* C16                                                                     *)
(***************************************************************************)

\* no element of the list occurs at two positions
NoRepeats(q) == \A i, j \in 1..Len(q) : q[i] = q[j] => i = j

\* the list opens with the first match of the pattern in the text, lower-cased
FirstMatchFirst(text, q) ==
    /\ (q = <<>>) = (EMAIL_RE_finditer(text, 1) = <<>>)
    /\ q # <<>> => q[1] = Lower(EMAIL_RE_finditer(text, 1)[1])

\* C16: for every text, the list extract_emails returns contains no address
\* twice, and its first element is the first match in the text.
C16_EmailsOrderedUnique ==
    em_pc = "done" => NoRepeats(em_out) /\ FirstMatchFirst(em_text, em_out)

\* the half that the code keeps: the list has one element for each match, in the
\* order of the text, so it opens with the first match
C16_AllMatchesInOrder ==
    em_pc = "done" =>
        /\ FirstMatchFirst(em_text, em_out)
        /\ Len(em_out) = Len(EMAIL_RE_finditer(em_text, 1))
        /\ \A i \in 1..Len(em_out) : em_out[i] = Lower(EMAIL_RE_finditer(em_text, 1)[i])

\* a text that holds one address twice, once in capitals: it is returned twice
C16_SameAddressTwice ==
    /\ em_pc = "done"
    /\ em_text = "a@b.co,A@B.CO"
    /\ em_out = <<"a@b.co", "a@b.co">>

(***************************************************************************)
(* C17                                                                     *)
(***************************************************************************)

\* the files whose record the run inserted, and how often
InsertsOf(f) == Cardinality({i \in 1..Len(attempts) : attempts[i].file = f /\ attempts[i].inserted})

\* the files the run logged as PROCESSED
LoggedProcessed(f) ==
    \E j \in 1..Len(RunLines) : RunLines[j].name = f /\ RunLines[j].status = "PROCESSED"

\* C17: in the batch run no file is both inserted into the store and moved to the
\* quarantine folder, and a file whose log line is PROCESSED has been inserted
\* exactly once and is still in the input folder, whatever fails: processing,
\* the insertion, the move of a file or an append to the log.
C17_OutcomesExclusive ==
    \A i \in 1..Len(attempts) :
        /\ ~(attempts[i].inserted /\ attempts[i].file \in error_folder)
        /\ LoggedProcessed(attempts[i].file) =>
              /\ InsertsOf(attempts[i].file) = 1
              /\ attempts[i].file \in input_folder

\* what the code keeps under every failure: a file logged as PROCESSED was inserted
\* once and is still in the input folder, the table holds one row for each
\* insertion, and a file is both inserted and quarantined only where the append
\* of its PROCESSED line raised
C17_ProcessedInsertedOnce ==
    /\ Len(table) = Cardinality({i \in 1..Len(attempts) : attempts[i].inserted})
    /\ \A i \in 1..Len(attempts) :
          /\ LoggedProcessed(attempts[i].file) =>
                /\ InsertsOf(attempts[i].file) = 1
                /\ attempts[i].file \in input_folder
                /\ attempts[i].file \notin error_folder
          /\ (attempts[i].inserted /\ attempts[i].file \in error_folder) =>
                /\ attempts[i].raised
                /\ attempts[i].stage = "log"
                /\ ~LoggedProcessed(attempts[i].file)

\* where the file system does not fail, the two outcomes exclude each other
C17_ExclusiveOnSoundFileSystem ==
    \A i \in 1..Len(attempts) : ~(attempts[i].inserted /\ attempts[i].file \in error_folder)

\* the record of a file was inserted, the append of its PROCESSED line raised, and
\* the handler moved the file to the quarantine folder and logged an error: the
\* run went on to its end with the row in the table
C17_InsertedAndQuarantined ==
    /\ main_pc = "done"
    /\ Len(attempts) = 1
    /\ attempts[1].inserted
    /\ attempts[1].file \in error_folder
    /\ Len(table) = 1
    /\ total_errors = 1
    /\ total_processed = 0
    /\ IsErrorStatus(RunLines[1].status)

====
